---- MODULE Spec2Model ----
(***************************************************************************)
(* linetools: the interactive widgets of guis/spec_widgets.py              *)
(* (VelPlotWidget and ExamineSpecWidget) and the spectrum utilities        *)
(* exercised by spectra/tests/test_xspec_utils.py.                         *)
(*                                                                         *)
(* Python dictionaries (AbsLine.analy) are functions whose DOMAIN is the   *)
(* set of keys present, so that a read of a missing key is a KeyError.     *)
(* Python's None for an optional object is the empty sequence <<>>, and    *)
(* an object that is present is a one-element sequence.  Python lists are  *)
(* sequences; positions are 1-based here and 0-based in the source.        *)
(***************************************************************************)
EXTENDS Integers, Sequences, FiniteSets, TLC

VARIABLES
    \* ---- VelPlotWidget ----
    abs_lines,   \* self.abs_lines: the analysis list (sequence of AbsLine)
    z,           \* self.z, in velocity units (see z_from_v)
    idx_line,    \* self.idx_line: 0-based index of the first displayed line
    sub_xy,      \* self.sub_xy: <<rows, cols>>
    x_minmax,    \* self.psdict['x_minmax']: "vmnx" or "nav" (changed by navigate)
    panels,      \* the figure's axes: position jj -> [gid, clr]
    err,         \* exception raised by the last handler ("none" if it returned)
    msg,         \* messages printed by the last handler
    redraw,      \* the on_draw call the last handler made
    dialog,      \* whether the last handler opened the WarningWidg dialog
    pc,          \* "init" (before the constructor's on_draw), "ready", "failed"
    nkeys,       \* number of events handled so far
    \* ---- spectra.utils on batches (test_collate .. test_smash_spectra) ----
    inputs,      \* the list of spectra handed to collate
    coll,        \* coll_spec = collate(inputs): <<>> or <<batch>>
    rest,        \* rest_spec = rebin_to_rest(coll_spec, zarr, dv): <<>> or <<result>>
    stack,       \* stack = smash_spectra(...): <<>> or <<result>>
    spliced,     \* spec3 = splice_two(a, b): <<>> or <<[a, b, out]>>
    stitched,    \* specm.stitch(): <<>> or <<[of, out]>>
    \* ---- one spectrum (test_continuum_utils, test_airtovac_andback) ----
    xspec,       \* the spectrum: wave, flux, co, normed, meta
    flux_old,    \* the flux before the last normalize()
    co_old,      \* the continuum handed to the last normalize()
    co_prev,     \* the continuum before the last perturb_continuum()
    wave_old,    \* the wavelengths and frame the spectrum was built with
    nconv,       \* air->vac conversions done minus vac->air conversions done
    op,          \* the last call made on the spectrum
    nops,        \* number of calls made so far
    \* ---- ExamineSpecWidget ----
    heap,        \* the spectrum objects: heap[i] is the value of object i
    espec,       \* self.spec: the object displayed
    orig_spec,   \* self.orig_spec: the object read by the constructor
    adict,       \* self.adict: the analysis dictionary
    llist,       \* self.llist: Plot, List and z
    psdict,      \* self.psdict: "init" or "nav" (changed by navigate)
    gmodel,      \* self.model: <<>> (None) or <<the Gaussian fit>>
    lya_line,    \* self.lya_line: <<>> (not set) or <<the Lya profile>>
    emsg,        \* messages of the last handler
    edraw,       \* the on_draw call the last handler made
    meas,        \* the measurements the last handler made
    nev          \* number of events handled so far

vvars == <<abs_lines, z, idx_line, sub_xy, x_minmax, panels, err, msg, redraw,
           dialog, pc, nkeys>>

bvars == <<inputs, coll, rest, stack, spliced, stitched>>

svars == <<xspec, flux_old, co_old, co_prev, wave_old, nconv, op, nops>>

evars == <<heap, espec, orig_spec, adict, llist, psdict, gmodel, lya_line, emsg,
           edraw, meas, nev>>

vars == <<vvars, bvars, svars, evars>>

(* No ExamineSpecWidget has been constructed *)
EIdle ==
    /\ heap = <<>> /\ espec = 0 /\ orig_spec = 0
    /\ adict = <<>> /\ llist = <<>> /\ psdict = "none"
    /\ gmodel = <<>> /\ lya_line = <<>>
    /\ emsg = {} /\ edraw = "none" /\ meas = <<>> /\ nev = 0

-----------------------------------------------------------------------------
(* Bounds of the model *)

MaxKeys == 2          \* events explored after construction
MaxRows == 3          \* cap on sub_xy[0] for the key 'K'
MaxCols == 4          \* cap on sub_xy[1] for the key 'C'

(* Program constants *)

InitRows == 3         \* self.sub_xy = [3,4]
InitCols == 4
VmnxLo == -300        \* vmnx=[-300., 300.]*u.km/u.s
VmnxHi == 300

(* The line list: rest wavelengths of self.llist[self.llist['List']], and   *)
(* the positions of those that fall inside the spectrum (llist['show_line']) *)
LLWrest == <<1215, 1548, 2796>>
ShowLine == <<1, 2>>

(* Cursor velocities of an event over a panel (event.xdata) *)
XData == {-200, 200}

(* Redshift given to the constructor *)
Z0 == 0

SpecFil == "spec.fits"

-----------------------------------------------------------------------------
(* Dictionaries *)

Has(d, k) == k \in DOMAIN d

Put(d, k, v) == [x \in (DOMAIN d) \cup {k} |-> IF x = k THEN v ELSE d[x]]

EmptyPanels == [p \in {} |-> 0]

SetAt(s, i, v) == [s EXCEPT ![i] = v]

(* vmnx/2. *)
HalfVmnx == <<VmnxLo \div 2, VmnxHi \div 2>>

(* linetools.utils.z_from_v: redshift z is kept as the velocity offset      *)
(* c*ln(1+z), in which a velocity shift is an addition.                     *)
z_from_v(zz, v) == zz + v

(* AbsLine(wrest, linelist=...): a new line.  The constructor gives the     *)
(* analysis dictionary a velocity window, flag_kin = 0 and do_analysis = 1; *)
(* flg_eye, flg_limit and FLAGS are not set.                                *)
AbsLine(wrest) ==
    [wrest |-> wrest, z |-> 0,
     analy |-> [vlim |-> <<0, 0>>, flag_kin |-> 0, do_analysis |-> 1]]

(* grab_line: position of the first line with this rest wavelength, 0 for   *)
(* None.                                                                    *)
grab_line(lines, wrest) ==
    LET hits == {i \in 1..Len(lines) : lines[i].wrest = wrest}
    IN IF hits = {} THEN 0 ELSE CHOOSE i \in hits : \A j \in hits : i <= j

(* generate_line without the grab_line test *)
generate_line_always(lines, zz, wrest) ==
    Append(lines, [wrest |-> wrest, z |-> zz,
                   analy |-> [vlim |-> HalfVmnx, flag_kin |-> 0, do_analysis |-> 1,
                              datafile |-> "spec.fits"]])

(* generate_line that appends the line as AbsLine built it *)
generate_line_bare(lines, zz, wrest) ==
    IF grab_line(lines, wrest) = 0 THEN Append(lines, AbsLine(wrest)) ELSE lines

(* generate_line((z, wrest)): append a new line unless one exists.          *)
generate_line(lines, zz, wrest) ==
    IF grab_line(lines, wrest) = 0
    THEN LET n0 == AbsLine(wrest)
             a1 == Put(n0.analy, "vlim", HalfVmnx)
             a2 == Put(a1, "do_analysis", 1)
             a3 == Put(a2, "datafile", SpecFil)
         IN Append(lines, [n0 EXCEPT !.z = zz, !.analy = a3])
    ELSE lines

RemoveAt(s, i) == [j \in 1..(Len(s) - 1) |-> IF j < i THEN s[j] ELSE s[j + 1]]

(* remove_line popping the end of the list *)
remove_line_last(lines, wrest) ==
    IF grab_line(lines, wrest) = 0 THEN [lines |-> lines, ret |-> FALSE]
    ELSE [lines |-> SubSeq(lines, 1, Len(lines) - 1), ret |-> FALSE]

(* remove_line: pops the first line with this rest wavelength.  Both paths  *)
(* return None: [lines, ret] with ret the value handed to the caller.       *)
remove_line(lines, wrest) ==
    LET idx == grab_line(lines, wrest)
    IN IF idx = 0 THEN [lines |-> lines, ret |-> FALSE]
       ELSE [lines |-> RemoveAt(lines, idx), ret |-> FALSE]

RECURSIVE GenerateAll(_, _, _)
GenerateAll(lines, zz, k) ==
    IF k > Len(ShowLine) THEN lines
    ELSE GenerateAll(generate_line(lines, zz, LLWrest[ShowLine[k]]), zz, k + 1)

(* init_lines: lines are generated for every displayed rest wavelength only *)
(* when the list handed to the constructor is empty.                        *)
init_lines(lines, zz) ==
    IF Len(lines) = 0 THEN GenerateAll(lines, zz, 1) ELSE lines

-----------------------------------------------------------------------------
(* on_draw *)

(* Colour coding with the blend test last *)
WindowColourEyeLast(analy) ==
    IF Has(analy, "flg_eye") /\ analy["flg_eye"] = 1 THEN "orange"
    ELSE IF Has(analy, "do_analysis") /\ analy["do_analysis"] = 0 THEN "red"
    ELSE IF Has(analy, "do_analysis") THEN "green" ELSE "black"

(* Colour coding with the limit test after the blend test *)
WindowColourLimitLast(analy) ==
    IF Has(analy, "do_analysis") /\ analy["do_analysis"] = 0 THEN "red"
    ELSE IF Has(analy, "flg_limit") /\ analy["flg_limit"] = 3 THEN "purple"
    ELSE IF Has(analy, "flg_limit") /\ analy["flg_limit"] = 2 THEN "blue"
    ELSE IF Has(analy, "flg_eye") /\ analy["flg_eye"] = 1 THEN "orange"
    ELSE IF Has(analy, "do_analysis") THEN "green" ELSE "black"

(* Colour of the velocity window of a line (on_draw, "Color coding").  A    *)
(* flag that is not in the dictionary is skipped (except KeyError).         *)
WindowColour(analy) ==
    LET c0 == "black"
        c1 == IF Has(analy, "FLAGS")
              THEN (IF analy["FLAGS"] <= 1 THEN "green"
                    ELSE IF analy["FLAGS"] \in {2, 3} THEN "blue"
                    ELSE IF analy["FLAGS"] \in {4, 5} THEN "purple"
                    ELSE c0)
              ELSE c0
        c2 == IF Has(analy, "do_analysis") /\ analy["do_analysis"] > 0 /\ c1 = "black"
              THEN "green" ELSE c1
        c3 == IF Has(analy, "flg_limit")
              THEN (IF analy["flg_limit"] = 3 THEN "purple"
                    ELSE IF analy["flg_limit"] = 2 THEN "blue" ELSE c2)
              ELSE c2
        c4 == IF Has(analy, "flg_eye") /\ analy["flg_eye"] = 1 THEN "orange" ELSE c3
    IN IF Has(analy, "do_analysis") /\ analy["do_analysis"] = 0 THEN "red" ELSE c4

(* all_idx[k] for a 0-based k, with Python's wrap-around of negative        *)
(* indices; <<>> when the index is out of range (IndexError).               *)
ShowAt(k) ==
    LET n == Len(ShowLine)
    IN IF k >= 0 /\ k < n THEN <<ShowLine[k + 1]>>
       ELSE IF k < 0 /\ k >= -n THEN <<ShowLine[n + k + 1]>>
       ELSE <<>>

(* The kinematics label reads analy['flag_kin'] with no KeyError guard.     *)
KinLabelFails(analy) == ~Has(analy, "flag_kin")

(* The loop over the windows of the page, from window jj on.  in_wrest is   *)
(* <<>> (all windows) or <<w>> (only the window of rest wavelength w).  The  *)
(* gid of a window is set before its label is built, so a window whose      *)
(* label fails keeps its new gid and the previous colour is cleared.        *)
RECURSIVE DrawLoop(_, _, _, _, _, _)
DrawLoop(jj, n, idx, lines, in_wrest, pan) ==
    IF jj >= n THEN [panels |-> pan, err |-> "none"]
    ELSE LET at == ShowAt(jj + idx)
         IN IF at = <<>> THEN DrawLoop(jj + 1, n, idx, lines, in_wrest, pan)
            ELSE LET wrest == LLWrest[at[1]]
                     il == grab_line(lines, wrest)
                 IN IF in_wrest # <<>> /\ in_wrest[1] # wrest
                    THEN DrawLoop(jj + 1, n, idx, lines, in_wrest, pan)
                    ELSE IF il = 0
                    THEN DrawLoop(jj + 1, n, idx, lines, in_wrest,
                                  Put(pan, jj, [gid |-> wrest, clr |-> "none"]))
                    ELSE IF KinLabelFails(lines[il].analy)
                    THEN [panels |-> Put(pan, jj, [gid |-> wrest, clr |-> "none"]),
                          err |-> "KeyError"]
                    ELSE DrawLoop(jj + 1, n, idx, lines, in_wrest,
                                  Put(pan, jj, [gid |-> wrest,
                                                clr |-> WindowColour(lines[il].analy)]))

Min(a, b) == IF a <= b THEN a ELSE b
Max(a, b) == IF a >= b THEN a ELSE b

(* on_draw(replot, in_wrest, fig_clear): [idx_line, panels, err].           *)
(* np.hstack of the transposed (rows, cols) index array has nothing to      *)
(* stack when cols = 0 and raises.                                          *)
on_draw(replot, in_wrest, fig_clear, idx, sxy, lines, pan) ==
    IF ~replot THEN [idx_line |-> idx, panels |-> pan, err |-> "none"]
    ELSE LET pan1 == IF fig_clear THEN EmptyPanels ELSE pan
             nplt == sxy[1] * sxy[2]
             idx1 == IF Len(ShowLine) <= nplt THEN 0 ELSE idx
         IN IF sxy[2] = 0
            THEN [idx_line |-> idx1, panels |-> pan1, err |-> "ValueError"]
            ELSE LET r == DrawLoop(0, Min(nplt, Len(ShowLine)), idx1, lines,
                                   in_wrest, pan1)
                 IN [idx_line |-> idx1, panels |-> r.panels, err |-> r.err]

-----------------------------------------------------------------------------
(* on_key *)

SingleKeys == {"1", "2", "B", "U", "L", "N", "V", "A", "x", "X", "^", "&"}
RedrawAllKeys == {"c", "C", "k", "K", "W", "!", "@", "=", "-", "X", "z", "R"}
FigClearKeys == {"k", "c", "C", "K", "R"}
(* self.psdict['nav']: the keys handled by ltgu.navigate; 'l' stands for them *)
NavKeys == {"l"}
(* '?' prints the help; 'q' stands for a key with no binding *)
Keys == SingleKeys \cup {"k", "K", "c", "C", "-", "=", "z", "!", "@", "R", "?", "q"}
            \cup NavKeys

(* Change rows/columns *)
ChangeSubXY(key, sxy) ==
    IF key = "k" THEN <<Max(0, sxy[1] - 1), sxy[2]>>
    ELSE IF key = "K" THEN <<sxy[1] + 1, sxy[2]>>
    ELSE IF key = "c" THEN <<sxy[1], Max(0, sxy[2] - 1)>>
    ELSE IF key = "C" THEN <<sxy[1], Max(0, sxy[2] + 1)>>
    ELSE sxy

(* '-' and '=': previous and next page *)
ChangePage(key, idx, sxy) ==
    IF key = "-" THEN Max(0, idx - sxy[1] * sxy[2])
    ELSE IF key = "=" THEN Min(Len(ShowLine) - sxy[1] * sxy[2], idx + sxy[1] * sxy[2])
    ELSE idx

(* fkin += (-1)**(fkin % 2**1 >= 2**0) * 2**0 *)
KinLow(fkin) == IF fkin % 2 >= 1 THEN fkin - 1 ELSE fkin + 1

(* the high-ion flag added without the test of the bit *)
KinHighAdd(fkin) == fkin + 2

(* fkin += (-1)**(fkin % 2**2 >= 2**1) * 2**1 *)
KinHigh(fkin) == IF fkin % 4 >= 2 THEN fkin - 2 ELSE fkin + 2

(* try: d[k]  except KeyError: dflt *)
GetOr(d, k, dflt) == IF Has(d, k) THEN d[k] ELSE dflt

ToggleEyeSet(feye) == 1

ToggleEye(feye) == (feye + 1) % 2

ToggleAnalysis(fanly) == IF fanly = 0 THEN 1 ELSE 0

(* 'N' written to the blend flag, 'U' given the lower-limit code *)
FlagKeyMixed(key, analy) ==
    IF key = "^" THEN Put(analy, "flag_kin", KinLow(GetOr(analy, "flag_kin", 0)))
    ELSE IF key = "&" THEN Put(analy, "flag_kin", KinHigh(GetOr(analy, "flag_kin", 0)))
    ELSE IF key = "B" THEN Put(analy, "flg_eye", ToggleEye(GetOr(analy, "flg_eye", 0)))
    ELSE IF key = "N"
    THEN Put(analy, "flg_eye", ToggleAnalysis(GetOr(analy, "do_analysis", 1)))
    ELSE IF key = "V" THEN Put(analy, "flg_limit", 1)
    ELSE IF key = "L" THEN Put(analy, "flg_limit", 2)
    ELSE IF key = "U" THEN Put(analy, "flg_limit", 2)
    ELSE analy

(* The flag keys on the analysis dictionary of the selected line *)
FlagKey(key, analy) ==
    IF key = "^" THEN Put(analy, "flag_kin", KinLow(GetOr(analy, "flag_kin", 0)))
    ELSE IF key = "&" THEN Put(analy, "flag_kin", KinHigh(GetOr(analy, "flag_kin", 0)))
    ELSE IF key = "B" THEN Put(analy, "flg_eye", ToggleEye(GetOr(analy, "flg_eye", 0)))
    ELSE IF key = "N"
    THEN Put(analy, "do_analysis", ToggleAnalysis(GetOr(analy, "do_analysis", 1)))
    ELSE IF key = "V" THEN Put(analy, "flg_limit", 1)
    ELSE IF key = "L" THEN Put(analy, "flg_limit", 2)
    ELSE IF key = "U" THEN Put(analy, "flg_limit", 3)
    ELSE analy

(* '1' and '2' writing the whole window *)
LimitKeyBoth(key, analy, v) ==
    IF key \in {"1", "2"} THEN Put(analy, "vlim", <<v, v>>) ELSE analy

(* '1' and '2' on the analysis dictionary of the selected line *)
LimitKey(key, analy, v) ==
    IF key = "1" THEN Put(analy, "vlim", <<v, analy["vlim"][2]>>)
    ELSE IF key = "2" THEN Put(analy, "vlim", <<analy["vlim"][1], v>>)
    ELSE analy

(* '!' and '@' on every line of the list *)
LimitAllKey(key, lines, v) ==
    [i \in 1..Len(lines) |->
        [lines[i] EXCEPT !.analy =
            IF key = "!" THEN Put(@, "vlim", <<v, @["vlim"][2]>>)
            ELSE IF key = "@" THEN Put(@, "vlim", <<@["vlim"][1], v>>)
            ELSE @]]

FlushKeep(lines) == lines

(* 'X' after the dialog: self.abs_lines = [] *)
Flush(lines) == <<>>

(* a handler that goes on when event.inaxes is None *)
NoAxesIgnored(key, inax) == FALSE

(* "except AttributeError: return": a single-line key with event.inaxes     *)
(* None, for which event.inaxes.get_gid() raises                            *)
NoAxes(key, inax) == key \in SingleKeys /\ inax = <<>>

(* The keys that read absline.analy of the line grab_line returned *)
EditKeys == {"1", "2", "^", "&", "B", "N", "V", "L", "U"}

(* What a handler leaves: the widget's fields and what it did *)
Result(lines, zz, idx, sxy, xmm, pan, e, m, rd, dlg) ==
    [abs_lines |-> lines, z |-> zz, idx_line |-> idx, sub_xy |-> sxy,
     x_minmax |-> xmm, panels |-> pan, err |-> e, msg |-> m, redraw |-> rd,
     dialog |-> dlg]

(* The end of on_key: flg and the on_draw call it selects *)
FinishKey(key, wrest, navflg, lines, zz, idx, sxy, xmm, m, dlg) ==
    LET flg0 == IF key \in NavKeys THEN navflg ELSE 0
        flg1 == IF wrest # <<>> THEN 3 ELSE flg0
        flg == IF key \in RedrawAllKeys THEN 1 ELSE flg1
        fig_clear == key \in FigClearKeys
        m1 == IF key = "?" THEN m \cup {"help"} ELSE m
        d == IF flg = 1 THEN on_draw(TRUE, <<>>, fig_clear, idx, sxy, lines, panels)
             ELSE IF flg = 2 THEN on_draw(FALSE, <<>>, FALSE, idx, sxy, lines, panels)
             ELSE IF flg = 3 THEN on_draw(TRUE, wrest, FALSE, idx, sxy, lines, panels)
             ELSE [idx_line |-> idx, panels |-> panels, err |-> "none"]
        rd == IF flg = 1 THEN "all" ELSE IF flg = 2 THEN "layer"
              ELSE IF flg = 3 THEN "single" ELSE "none"
    IN Result(lines, zz, d.idx_line, sxy, xmm, d.panels, d.err, m1, rd, dlg)

(* on_key(event): event.key = key; event.inaxes is the window at position   *)
(* inax[1], or None (inax = <<>>); event.xdata = xdata[1], or None; ans is   *)
(* the answer to the dialog; navflg is what ltgu.navigate returns.          *)
KeyResult(key, inax, xdata, ans, navflg) ==
    LET sxy1 == ChangeSubXY(key, sub_xy)
        xmm1 == IF key \in NavKeys THEN "nav" ELSE x_minmax
        idx1 == ChangePage(key, idx_line, sxy1)
        m1 == IF key \in {"-", "="} /\ idx1 = idx_line THEN {"Edge of list"} ELSE {}
        Abort(e) == Result(abs_lines, z, idx1, sxy1, xmm1, panels, e, m1, "none", FALSE)
        wrest == IF key \in SingleKeys /\ inax # <<>> THEN <<panels[inax[1]].gid>>
                 ELSE <<>>
        il == IF wrest # <<>> THEN grab_line(abs_lines, wrest[1]) ELSE 0
    IN IF key = "z" /\ xdata = <<>> THEN Abort("TypeError")
       ELSE IF NoAxes(key, inax) THEN Abort("none")
       ELSE IF key \in EditKeys /\ il = 0 THEN Abort("AttributeError")
       ELSE IF key \in {"!", "@"} /\ xdata = <<>> /\ Len(abs_lines) > 0
       THEN Abort("TypeError")
       ELSE IF key = "X" /\ ~ans
       THEN Result(abs_lines, z, idx1, sxy1, xmm1, panels, "none", m1, "none", TRUE)
       ELSE
       LET z1 == IF key = "z" THEN z_from_v(z, xdata[1]) ELSE z
           xmm2 == IF key = "z" THEN "vmnx" ELSE xmm1
           l1 == IF key \in {"1", "2"}
                 THEN SetAt(abs_lines, il,
                            [abs_lines[il] EXCEPT
                                !.analy = LimitKey(key, @, xdata[1])])
                 ELSE IF key \in {"!", "@"} /\ Len(abs_lines) > 0
                 THEN LimitAllKey(key, abs_lines, xdata[1])
                 ELSE abs_lines
           l2 == IF key = "A" THEN generate_line(l1, z1, wrest[1]) ELSE l1
           m2 == IF key = "A" /\ l2 # l1 THEN m1 \cup {"VelPlot: Generating line"}
                 ELSE m1
           rm == remove_line(l2, IF wrest # <<>> THEN wrest[1] ELSE 0)
           l3 == IF key = "x" THEN rm.lines ELSE l2
           m3 == IF key = "x" /\ rm.ret THEN m2 \cup {"VelPlot: Removed line"} ELSE m2
           l4 == IF key = "X" THEN Flush(l3) ELSE l3
           l5 == IF key \in {"^", "&", "B", "N", "V", "L", "U"}
                 THEN SetAt(l4, il, [l4[il] EXCEPT !.analy = FlagKey(key, @)])
                 ELSE l4
       IN FinishKey(key, wrest, navflg, l5, z1, idx1, sxy1, xmm2, m3, key = "X")

Apply(r) ==
    /\ abs_lines' = r.abs_lines
    /\ z' = r.z
    /\ idx_line' = r.idx_line
    /\ sub_xy' = r.sub_xy
    /\ x_minmax' = r.x_minmax
    /\ panels' = r.panels
    /\ err' = r.err
    /\ msg' = r.msg
    /\ redraw' = r.redraw
    /\ dialog' = r.dialog
    /\ UNCHANGED <<bvars, svars, evars>>

(* The events the figure can deliver in the current state *)
Cursors == {<<>>} \cup {<<p>> : p \in DOMAIN panels}

XDataOf(inax) == IF inax = <<>> THEN {<<>>} ELSE {<<v>> : v \in XData}

OnKey(key, inax, xdata, ans, navflg) ==
    /\ pc = "ready"
    /\ nkeys < MaxKeys
    /\ key = "K" => sub_xy[1] < MaxRows
    /\ key = "C" => sub_xy[2] < MaxCols
    /\ Apply(KeyResult(key, inax, xdata, ans, navflg))
    /\ nkeys' = nkeys + 1
    /\ pc' = pc

(* on_click: the main button draws a marker and calls on_draw(replot=False) *)
OnClick(button) ==
    /\ pc = "ready"
    /\ nkeys < MaxKeys
    /\ Apply(Result(abs_lines, z, idx_line, sub_xy, x_minmax, panels, "none", {},
                    IF button = 1 THEN "layer" ELSE "none", FALSE))
    /\ nkeys' = nkeys + 1
    /\ pc' = pc

-----------------------------------------------------------------------------
(* Construction *)

(* Analysis dictionaries of lines the caller hands to the constructor *)
CallerAnaly ==
    { [vlim |-> <<-100, 100>>],
      [vlim |-> <<-100, 100>>, flag_kin |-> 0],
      [vlim |-> <<-100, 100>>, flag_kin |-> 3, do_analysis |-> 1,
       flg_eye |-> 1, flg_limit |-> 2] }

CallerLines ==
    {[wrest |-> w, z |-> Z0, analy |-> a] : w \in {LLWrest[1], LLWrest[3]},
                                            a \in CallerAnaly}

(* abs_lines=None, or a list of lines with distinct rest wavelengths *)
CallerLists == {<<>>} \cup {<<l>> : l \in CallerLines}

(* __init__ up to the call of on_draw *)
VInit ==
    /\ \E given \in CallerLists : abs_lines = init_lines(given, Z0)
    /\ z = Z0
    /\ idx_line = 0
    /\ sub_xy = <<InitRows, InitCols>>
    /\ x_minmax = "vmnx"
    /\ panels = EmptyPanels
    /\ err = "none"
    /\ msg = {}
    /\ redraw = "none"
    /\ dialog = FALSE
    /\ pc = "init"
    /\ nkeys = 0
    /\ inputs = <<>> /\ coll = <<>> /\ rest = <<>> /\ stack = <<>>
    /\ spliced = <<>> /\ stitched = <<>>
    /\ xspec = <<>> /\ flux_old = <<>> /\ co_old = <<>>
    /\ co_prev = <<>> /\ wave_old = <<>>
    /\ nconv = 0 /\ op = "none" /\ nops = 0
    /\ EIdle

(* "Draw on init": the constructor fails when on_draw raises *)
InitDraw ==
    /\ pc = "init"
    /\ LET d == on_draw(TRUE, <<>>, FALSE, idx_line, sub_xy, abs_lines, panels)
       IN /\ Apply(Result(abs_lines, z, d.idx_line, sub_xy, x_minmax, d.panels,
                          d.err, {"help"}, "all", FALSE))
          /\ pc' = IF d.err = "none" THEN "ready" ELSE "failed"
    /\ nkeys' = nkeys

(* The events, by what the handler reads of them *)
PlainKeys == {"k", "K", "c", "C", "-", "=", "R", "?", "q"}
CursorKeys == {"z", "!", "@"}
LimitKeys == {"1", "2"}
LineKeys == SingleKeys \ (LimitKeys \cup {"X"})

KeyPlain == \E key \in PlainKeys : OnKey(key, <<>>, <<>>, FALSE, 0)

KeyNav == \E key \in NavKeys, navflg \in {0, 1} : OnKey(key, <<>>, <<>>, FALSE, navflg)

KeyCursor ==
    \E key \in CursorKeys, xdata \in {<<>>} \cup {<<v>> : v \in XData} :
        OnKey(key, <<>>, xdata, FALSE, 0)

KeyLimit ==
    \E key \in LimitKeys, inax \in Cursors :
        \E xdata \in XDataOf(inax) : OnKey(key, inax, xdata, FALSE, 0)

KeyLine ==
    \E key \in LineKeys, inax \in Cursors :
        \E xdata \in XDataOf(inax) : OnKey(key, inax, xdata, FALSE, 0)

KeyRemoveAll ==
    \E inax \in Cursors, ans \in BOOLEAN :
        \E xdata \in XDataOf(inax) : OnKey("X", inax, xdata, ans, 0)

VNext ==
    \/ InitDraw
    \/ KeyPlain
    \/ KeyNav
    \/ KeyCursor
    \/ KeyLimit
    \/ KeyLine
    \/ KeyRemoveAll
    \/ \E button \in {1, 3} : OnClick(button)

Spec == VInit /\ [][VNext]_vars

-----------------------------------------------------------------------------
(* Properties of VelPlotWidget *)

(* The line under the cursor: position in abs_lines of the line whose rest  *)
(* wavelength is the gid of window inax[1], 0 when there is none.           *)
LineAt(inax) == grab_line(abs_lines, panels[inax[1]].gid)

OverPanel == Cursors \ {<<>>}

(* What on_key leaves when a flag key is pressed over window inax (the      *)
(* handler of a flag key does not read event.xdata).                        *)
Pressed(key, inax) == KeyResult(key, inax, <<CHOOSE v \in XData : TRUE>>, FALSE, 0)

(* C1: the analysis list never holds two lines with the same rest           *)
(* wavelength, whatever keys are pressed.                                   *)
C1_UniqueWrest ==
    \A i, j \in 1..Len(abs_lines) :
        abs_lines[i].wrest = abs_lines[j].wrest => i = j

(* A line was removed and generated again by 'A': the list is full again.   *)
C1_Witness ==
    /\ pc = "ready"
    /\ nkeys >= 2
    /\ "VelPlot: Generating line" \in msg
    /\ Len(abs_lines) = Len(ShowLine)

(* C5: every read of an analysis flag succeeds when the flag is not set on  *)
(* the line: no handler, and no redraw, ends in a KeyError.                 *)
C5_FlagReadsSucceed == err # "KeyError"

KinOf(line) == GetOr(line.analy, "flag_kin", 0)

Bit0(n) == n % 2
Bit1(n) == (n \div 2) % 2

C6_KinRange == \A i \in 1..Len(abs_lines) : KinOf(abs_lines[i]) \in 0..3

C6_KinAlgebra ==
    \A i \in 1..Len(abs_lines) :
        LET fk == KinOf(abs_lines[i])
        IN /\ KinLow(KinLow(fk)) = fk
           /\ KinHigh(KinHigh(fk)) = fk
           /\ KinLow(KinHigh(fk)) = KinHigh(KinLow(fk))

C6_KinStep ==
    \A inax \in OverPanel :
        LET il == LineAt(inax)
            old == KinOf(abs_lines[il])
            low == KinOf(Pressed("^", inax).abs_lines[il])
            high == KinOf(Pressed("&", inax).abs_lines[il])
        IN il # 0 =>
           /\ Bit0(low) = 1 - Bit0(old)
           /\ Bit1(low) = Bit1(old)
           /\ low \in 0..3
           /\ Bit1(high) = 1 - Bit1(old)
           /\ Bit0(high) = Bit0(old)
           /\ high \in 0..3

(* C6: '^' flips exactly bit 0 of flag_kin and '&' exactly bit 1; flag_kin   *)
(* stays in 0..3, the two keys commute and each is its own inverse.         *)
C6_KinBits == pc = "ready" => C6_KinRange /\ C6_KinAlgebra /\ C6_KinStep

(* Both kinematic flags were set by key on a line the widget generated.     *)
C6_Witness ==
    /\ pc = "ready"
    /\ \E i \in 1..Len(abs_lines) :
          /\ Has(abs_lines[i].analy, "datafile")
          /\ abs_lines[i].analy["flag_kin"] = 3

FlagKeys == {"^", "&", "B", "N", "V", "L", "U"}

FlagOf(key) ==
    IF key \in {"^", "&"} THEN "flag_kin"
    ELSE IF key = "B" THEN "flg_eye"
    ELSE IF key = "N" THEN "do_analysis"
    ELSE "flg_limit"

DefaultOf(flag) == IF flag = "do_analysis" THEN 1 ELSE 0

C7_FrameOf(key, il, r) ==
    LET old == abs_lines[il]
        new == r.abs_lines[il]
        flag == FlagOf(key)
    IN /\ Len(r.abs_lines) = Len(abs_lines)
       /\ \A j \in 1..Len(abs_lines) : j # il => r.abs_lines[j] = abs_lines[j]
       /\ new.wrest = old.wrest
       /\ new.z = old.z
       /\ DOMAIN new.analy = (DOMAIN old.analy) \cup {flag}
       /\ \A k \in (DOMAIN old.analy) \ {flag} : new.analy[k] = old.analy[k]
       /\ key \in {"^", "&", "B", "N"} =>
             new.analy[flag] # GetOr(old.analy, flag, DefaultOf(flag))
       /\ key = "V" => new.analy[flag] = 1
       /\ key = "L" => new.analy[flag] = 2
       /\ key = "U" => new.analy[flag] = 3
       /\ r.z = z
       /\ r.idx_line = idx_line
       /\ r.sub_xy = sub_xy

(* The redraw of one window leaves the page where it is: the first          *)
(* displayed index is reset only when the whole list fits on the page, and  *)
(* then it is 0 already.                                                    *)
C7_PageKept ==
    /\ idx_line # 0 => Len(ShowLine) > sub_xy[1] * sub_xy[2]
    /\ pc = "init" =>
       \A idx \in 0..(Len(ShowLine) - 1), rows \in 0..MaxRows, cols \in 0..MaxCols,
          w \in {LLWrest[i] : i \in 1..Len(LLWrest)} :
          (idx = 0 \/ Len(ShowLine) > rows * cols) =>
              on_draw(TRUE, <<w>>, FALSE, idx, <<rows, cols>>, abs_lines,
                      panels).idx_line = idx

(* C7: a flag key pressed over the window of a line of the list changes     *)
(* only that flag of that line; the other flags, the velocity window, the   *)
(* other lines, the order of the list, z, the layout and the page stay.     *)
C7_FlagFrame ==
    /\ C7_PageKept
    /\ pc = "ready" =>
        \A key \in FlagKeys, inax \in OverPanel :
            LineAt(inax) # 0 => C7_FrameOf(key, LineAt(inax), Pressed(key, inax))

(* 'U' was pressed on one of two generated lines: it alone is an upper      *)
(* limit.                                                                   *)
C7_Witness ==
    /\ pc = "ready"
    /\ redraw = "single"
    /\ Len(abs_lines) = 2
    /\ Has(abs_lines[1].analy, "flg_limit")
    /\ abs_lines[1].analy["flg_limit"] = 3
    /\ ~Has(abs_lines[2].analy, "flg_limit")

-----------------------------------------------------------------------------
(* Exact fractions <<n, d>> with d > 0, in lowest terms: the values of flux *)
(* and continuum pixels.                                                    *)

Abs(n) == IF n < 0 THEN -n ELSE n

RECURSIVE GCD(_, _)
GCD(a, b) == IF b = 0 THEN a ELSE GCD(b, a % b)

Norm(q) ==
    LET g == GCD(Abs(q[1]), q[2])
    IN IF q[1] = 0 THEN <<0, 1>> ELSE <<q[1] \div g, q[2] \div g>>

Rat(n) == <<n, 1>>
RAdd(a, b) == Norm(<<a[1] * b[2] + b[1] * a[2], a[2] * b[2]>>)
RMul(a, b) == Norm(<<a[1] * b[1], a[2] * b[2]>>)
(* a / b for b > 0 *)
RDiv(a, b) == Norm(<<a[1] * b[2], a[2] * b[1]>>)
RLeq(a, b) == a[1] * b[2] <= b[1] * a[2]

RECURSIVE RSum(_)
RSum(s) == IF s = <<>> THEN Rat(0) ELSE RAdd(Head(s), RSum(Tail(s)))

RECURSIVE SumLen(_)
SumLen(list) == IF list = <<>> THEN 0 ELSE Len(Head(list).wave) + SumLen(Tail(list))

RECURSIVE MaxNpix(_)
MaxNpix(list) == IF list = <<>> THEN 0 ELSE Max(Len(Head(list).wave), MaxNpix(Tail(list)))

Range(s) == {s[i] : i \in 1..Len(s)}

-----------------------------------------------------------------------------
(* Batches of spectra: collate, rebin_to_rest, smash_spectra.               *)
(* A spectrum is [wave, flux, valid]: wave is the pixel coordinate          *)
(* c*ln(lambda) in km/s, strictly increasing, so that a redshift is a       *)
(* subtraction and a constant velocity pixel width is a constant step.      *)

Spectrum(wave, flux) ==
    [wave |-> wave, flux |-> [i \in 1..Len(flux) |-> Rat(flux[i])],
     valid |-> [i \in 1..Len(wave) |-> TRUE]]

SumNpix(spectra) == SumLen(spectra)

(* totpix of a container: the width of its pixel arrays, which is the       *)
(* pixel count of its longest spectrum.  rest_spec (two spectra on one      *)
(* grid) and the stacked spectrum report the same totpix.                   *)
TotPix(spectra) == MaxNpix(spectra)

Batch(spectra) == [nspec |-> Len(spectra), totpix |-> TotPix(spectra), spectra |-> spectra]

(* collate(list_of_spectra): a batch that keeps each spectrum's own grid.   *)
collate(list) == Batch(list)

CommonGrid(b) == \A i, j \in 1..b.nspec : b.spectra[i].wave = b.spectra[j].wave

MinOf(S) == CHOOSE x \in S : \A y \in S : x <= y
MaxOf(S) == CHOOSE x \in S : \A y \in S : x >= y

(* Rest-frame coordinates of spectrum k: shifted by its redshift.           *)
RestWave(sp, zs) == [i \in 1..Len(sp.wave) |-> sp.wave[i] - zs]

(* The common rest-frame grid: from the smallest to the largest rest-frame  *)
(* coordinate of the batch in steps of the velocity pixel width dv.         *)
RestGrid(b, zarr, dv) ==
    LET all == UNION {Range(RestWave(b.spectra[k], zarr[k])) : k \in 1..b.nspec}
        lo == MinOf(all)
        hi == MaxOf(all)
    IN [j \in 1..((hi - lo) \div dv + 1) |-> lo + (j - 1) * dv]

(* rebin of one spectrum onto grid: a new pixel is the mean flux density of *)
(* the old pixels inside it; a new pixel without coverage is flagged.       *)
Rebin(sp, zs, grid, dv) ==
    LET rw == RestWave(sp, zs)
        In(j) == {i \in 1..Len(rw) : grid[j] <= rw[i] /\ rw[i] < grid[j] + dv}
        Pick(S) == [n \in 1..Cardinality(S) |->
                       sp.flux[CHOOSE i \in S : Cardinality({m \in S : m < i}) = n - 1]]
    IN [wave |-> grid,
        flux |-> [j \in 1..Len(grid) |->
                    IF In(j) = {} THEN Rat(0)
                    ELSE RDiv(RSum(Pick(In(j))), Rat(Cardinality(In(j))))],
        valid |-> [j \in 1..Len(grid) |-> In(j) # {}]]

(* rebin_to_rest(batch, redshift_array, velocity_pixel_width): fails if the *)
(* number of redshifts is not the number of spectra.                        *)
rebin_to_rest(b, zarr, dv) ==
    IF Len(zarr) # b.nspec THEN [err |-> "Error", batch |-> <<>>]
    ELSE LET grid == RestGrid(b, zarr, dv)
         IN [err |-> "none",
             batch |-> <<Batch([k \in 1..b.nspec |->
                                   Rebin(b.spectra[k], zarr[k], grid, dv)])>>]

(* The values of the valid pixels j of the batch, in batch order *)
RECURSIVE Column(_, _, _)
Column(b, j, k) ==
    IF k > b.nspec THEN <<>>
    ELSE IF b.spectra[k].valid[j] THEN <<b.spectra[k].flux[j]>> \o Column(b, j, k + 1)
    ELSE Column(b, j, k + 1)

Total(col) == RSum(col)

Average(col) == IF col = <<>> THEN Rat(0) ELSE RDiv(RSum(col), Rat(Len(col)))

(* The median of a non-empty column: the middle value, or the mean of the   *)
(* two middle values.                                                       *)
Median(col) ==
    IF col = <<>> THEN Rat(0)
    ELSE LET n == Len(col)
             Rank(i) == Cardinality({m \in 1..n : ~RLeq(col[i], col[m])
                                                   \/ (col[m] = col[i] /\ m < i)}) + 1
             At(r) == col[CHOOSE i \in 1..n : Rank(i) = r]
         IN IF n % 2 = 1 THEN At((n + 1) \div 2)
            ELSE RDiv(RAdd(At(n \div 2), At(n \div 2 + 1)), Rat(2))

smash_unchecked(b, method) ==
    LET grid == b.spectra[1].wave
    IN [err |-> "none",
        spec |-> <<[nspec |-> 1, totpix |-> Len(grid),
                    spectra |-> <<[wave |-> grid, flux |-> b.spectra[1].flux,
                                   valid |-> b.spectra[1].valid]>>]>>]

(* smash_spectra(batch, method): the batch must share one grid              *)
(* (AssertionError otherwise); the result is one spectrum on that grid.     *)
smash_spectra(b, method) ==
    IF ~CommonGrid(b) THEN [err |-> "AssertionError", spec |-> <<>>]
    ELSE LET grid == b.spectra[1].wave
             sp == [wave |-> grid,
                    flux |-> [j \in 1..Len(grid) |->
                                IF method = "average" THEN Average(Column(b, j, 1))
                                ELSE Median(Column(b, j, 1))],
                    valid |-> [j \in 1..Len(grid) |-> Column(b, j, 1) # <<>>]]
         IN [err |-> "none", spec |-> <<Batch(<<sp>>)>>]

(* The pixels of sp, in order, whose index is in S *)
RECURSIVE Pixels(_, _, _)
Pixels(sp, S, i) ==
    IF i > Len(sp.wave) THEN [wave |-> <<>>, flux |-> <<>>, valid |-> <<>>]
    ELSE LET r == Pixels(sp, S, i + 1)
         IN IF i \in S
            THEN [wave |-> <<sp.wave[i]>> \o r.wave, flux |-> <<sp.flux[i]>> \o r.flux,
                  valid |-> <<sp.valid[i]>> \o r.valid]
            ELSE r

Concat(a, b) == [wave |-> a.wave \o b.wave, flux |-> a.flux \o b.flux,
                 valid |-> a.valid \o b.valid]

splice_append(a, b) == Concat(a, b)

(* splice_two(spec_a, spec_b): spec_a whole, with the pixels of spec_b      *)
(* outside spec_a's wavelength range below and above it.                    *)
splice_two(a, b) ==
    LET lo == a.wave[1]
        hi == a.wave[Len(a.wave)]
        below == {i \in 1..Len(b.wave) : b.wave[i] < lo}
        above == {i \in 1..Len(b.wave) : b.wave[i] > hi}
    IN Concat(Concat(Pixels(b, below, 1), a), Pixels(b, above, 1))

RECURSIVE stitch_from(_, _, _)
stitch_from(acc, b, k) ==
    IF k > b.nspec THEN acc ELSE stitch_from(splice_two(acc, b.spectra[k]), b, k + 1)

RECURSIVE stitch_backwards(_)
stitch_backwards(b) ==
    IF b.nspec = 1 THEN b.spectra[1]
    ELSE splice_two(b.spectra[b.nspec],
                    stitch_backwards(Batch(SubSeq(b.spectra, 1, b.nspec - 1))))

(* stitch(): the spectra of the batch spliced one after the other, in batch *)
(* order.                                                                   *)
stitch(b) == stitch_from(b.spectra[1], b, 2)

-----------------------------------------------------------------------------
(* The calls of test_collate, test_rebin_to_rest and test_smash_spectra, in *)
(* any order the objects allow, on small spectra.                           *)

MaxSpec == 3

(* Two spectra on one grid and two on other grids *)
SpecA == Spectrum(<<10, 20, 30, 40>>, <<4, 2, 6, 8>>)
SpecA2 == Spectrum(<<10, 20, 30, 40>>, <<1, 3, 3, 5>>)
SpecB == Spectrum(<<25, 35, 45>>, <<7, 1, 2>>)
SpecC == Spectrum(<<15, 20, 25, 30, 35>>, <<3, 9, 6, 6, 0>>)
SpecSet == {SpecA, SpecA2, SpecB, SpecC}

SpecLists == UNION {[1..n -> SpecSet] : n \in 1..MaxSpec}

(* Redshifts, as shifts of the pixel coordinate, and pixel widths *)
ZShifts == {0, 10}
ZArrays == UNION {[1..n -> ZShifts] : n \in 1..MaxSpec}
PixWidths == {10, 20}

BInit ==
    /\ inputs \in SpecLists
    /\ coll = <<>> /\ rest = <<>> /\ stack = <<>>
    /\ spliced = <<>> /\ stitched = <<>>
    /\ abs_lines = <<>> /\ z = Z0 /\ idx_line = 0 /\ sub_xy = <<InitRows, InitCols>>
    /\ x_minmax = "vmnx" /\ panels = EmptyPanels /\ err = "none" /\ msg = {}
    /\ redraw = "none" /\ dialog = FALSE /\ pc = "idle" /\ nkeys = 0
    /\ xspec = <<>> /\ flux_old = <<>> /\ co_old = <<>>
    /\ co_prev = <<>> /\ wave_old = <<>>
    /\ nconv = 0 /\ op = "none" /\ nops = 0
    /\ EIdle

(* coll_spec = ltsu.collate([spec, spec2]) *)
DoCollate ==
    /\ coll = <<>> /\ spliced = <<>> /\ stitched = <<>>
    /\ coll' = <<collate(inputs)>>
    /\ UNCHANGED <<inputs, rest, stack, spliced, stitched, vvars, svars, evars>>

(* rest_spec = ltsu.rebin_to_rest(coll_spec, zarr, dv) *)
DoRebinToRest ==
    /\ coll # <<>> /\ rest = <<>>
    /\ \E zarr \in ZArrays, dv \in PixWidths :
          rest' = <<rebin_to_rest(coll[1], zarr, dv)>>
    /\ UNCHANGED <<inputs, coll, stack, spliced, stitched, vvars, svars, evars>>

(* stack = ltsu.smash_spectra(coll_spec) *)
DoSmashCollated ==
    /\ coll # <<>>
    /\ \E method \in {"average", "median"} :
          stack' = <<[of |-> coll[1], method |-> method] @@ smash_spectra(coll[1], method)>>
    /\ UNCHANGED <<inputs, coll, rest, spliced, stitched, vvars, svars, evars>>

(* stack = ltsu.smash_spectra(rest_spec, method) *)
DoSmashRebinned ==
    /\ rest # <<>> /\ rest[1].err = "none"
    /\ \E method \in {"average", "median"} :
          stack' = <<[of |-> rest[1].batch[1], method |-> method]
                       @@ smash_spectra(rest[1].batch[1], method)>>
    /\ UNCHANGED <<inputs, coll, rest, spliced, stitched, vvars, svars, evars>>

(* spec3 = ltsu.splice_two(spec, spec2) *)
DoSpliceTwo ==
    /\ coll = <<>> /\ spliced = <<>> /\ Len(inputs) >= 2
    /\ spliced' = <<[a |-> inputs[1], b |-> inputs[2],
                     out |-> splice_two(inputs[1], inputs[2])]>>
    /\ UNCHANGED <<inputs, coll, rest, stack, stitched, vvars, svars, evars>>

(* specm = XSpectrum1D.from_list(inputs); spec = specm.stitch() *)
DoStitch ==
    /\ coll = <<>> /\ stitched = <<>>
    /\ stitched' = <<[of |-> Batch(inputs), out |-> stitch(Batch(inputs))]>>
    /\ UNCHANGED <<inputs, coll, rest, stack, spliced, vvars, svars, evars>>

BNext ==
    \/ DoCollate
    \/ DoRebinToRest
    \/ DoSmashCollated
    \/ DoSmashRebinned
    \/ DoSpliceTwo
    \/ DoStitch

SpecBatch == BInit /\ [][BNext]_vars

-----------------------------------------------------------------------------
(* Properties of collate, rebin_to_rest and smash_spectra *)

Stacked == stack # <<>> /\ stack[1].err = "none"
DiffersFromFirst(b) == \E k \in 2..b.nspec : b.spectra[k].wave # b.spectra[1].wave

(* C2: smash_spectra on a batch whose spectra are not all on one grid fails *)
(* with an error and yields no stack; it yields a stack only for a batch on *)
(* one grid, and every batch that rebin_to_rest returns is on one grid.     *)
C2_SmashNeedsCommonGrid ==
    /\ stack # <<>> =>
          /\ DiffersFromFirst(stack[1].of) =>
                stack[1].err = "AssertionError" /\ stack[1].spec = <<>>
          /\ stack[1].err = "none" =>
                ~DiffersFromFirst(stack[1].of) /\ Len(stack[1].spec) = 1
    /\ (rest # <<>> /\ rest[1].err = "none") => ~DiffersFromFirst(rest[1].batch[1])

C2_Witness ==
    /\ stack # <<>> /\ stack[1].err = "AssertionError"
    /\ stack[1].of = coll[1] /\ coll[1].nspec = 2
    /\ rest # <<>> /\ rest[1].err = "none"

KeepsGrids ==
    \A k \in 1..Len(inputs) : coll[1].spectra[k] = inputs[k]

-----------------------------------------------------------------------------
(* One spectrum: normalize/unnormalize, the continuum utilities and the     *)
(* air/vacuum conversions.  Wavelengths are integers in units of 0.001      *)
(* Angstrom; flux and continuum pixels are exact fractions.                 *)

XSpectrum1D(wave, flux, airvac, contpoints) ==
    [wave |-> wave, flux |-> [i \in 1..Len(flux) |-> Rat(flux[i])], co |-> <<>>,
     normed |-> FALSE, meta |-> [airvac |-> airvac, contpoints |-> contpoints]]

(* _interp_continuum(x, y, wave): through the control points, linear        *)
(* between neighbours, the boundary value outside them.  The position of a *)
(* pixel inside a segment is resolved to an eighth of the segment.          *)
InterpAt(cp, x) ==
    LET n == Len(cp)
    IN IF x <= cp[1][1] THEN Rat(cp[1][2])
       ELSE IF x >= cp[n][1] THEN Rat(cp[n][2])
       ELSE LET k == CHOOSE m \in 1..(n - 1) : cp[m][1] <= x /\ x < cp[m + 1][1]
                t8 == ((x - cp[k][1]) * 8) \div (cp[k + 1][1] - cp[k][1])
            IN Norm(<<cp[k][2] * 8 + (cp[k + 1][2] - cp[k][2]) * t8, 8>>)

interp_continuum(cp, wave) == [i \in 1..Len(wave) |-> InterpAt(cp, wave[i])]

normalize_flag_only(s, c) == [s EXCEPT !.co = c, !.normed = TRUE]

(* normalize(co): divides the flux by the continuum, attaches it and sets   *)
(* normed.                                                                  *)
normalize(s, c) ==
    [s EXCEPT !.flux = [i \in 1..Len(s.flux) |-> RDiv(s.flux[i], c[i])],
              !.co = c, !.normed = TRUE]

unnormalize_flag_only(s) == [s EXCEPT !.normed = FALSE]

(* unnormalize(): multiplies the flux by the attached continuum and clears  *)
(* normed.                                                                  *)
unnormalize(s) ==
    IF ~s.normed THEN s
    ELSE [s EXCEPT !.flux = [i \in 1..Len(s.flux) |-> RMul(s.flux[i], s.co[i])],
                   !.normed = FALSE]

(* The noise of pixel i under a seed, in units of rel_var: never zero *)
NoiseUnit(seed, i) ==
    LET r == (seed * 3 + i * 2 + i * i) % 4
    IN IF r = 0 THEN 1 ELSE IF r = 1 THEN -1 ELSE IF r = 2 THEN 2 ELSE -2

(* perturb_continuum(rel_var, seed): co * (1 + noise), rel_var in percent *)
perturb_continuum(s, rel_var, seed) ==
    [s EXCEPT !.co = [i \in 1..Len(s.co) |->
                        RMul(s.co[i], Norm(<<100 + rel_var * NoiseUnit(seed, i), 100>>))]]

reset_keep(s) == s

(* reset_continuum(): the continuum of the stored control points *)
reset_continuum(s) == [s EXCEPT !.co = interp_continuum(s.meta.contpoints, s.wave)]

(* Refractivity of air (n - 1) in parts per million, falling by 2 ppm from  *)
(* 5000 to 6000 Angstrom.                                                   *)
RefrPPM(w) == 279 - ((w - 5000000) * 2) \div 1000000

(* w * (n(w) - 1), with the refractivity taken at w to a fraction of a ppm *)
AirShift(w) ==
    (w * 279) \div 1000000 - ((w \div 1000) * ((w - 5000000) \div 1000) * 2) \div 1000000

(* vacuum = air * n(air) *)
AirToVacW(w) == w + AirShift(w)
(* air = vacuum / n(vacuum) *)
VacToAirW(w) == w - (AirShift(w) * 1000000) \div (1000000 + RefrPPM(w))

airtovac_unguarded(s) ==
    [done |-> TRUE,
     spec |-> [s EXCEPT !.wave = [i \in 1..Len(s.wave) |-> AirToVacW(s.wave[i])],
                        !.meta.airvac = "vac"]]

(* airtovac(): converts a spectrum tagged 'air'; does nothing otherwise *)
airtovac(s) ==
    IF s.meta.airvac # "air" THEN [done |-> FALSE, spec |-> s]
    ELSE [done |-> TRUE,
          spec |-> [s EXCEPT !.wave = [i \in 1..Len(s.wave) |-> AirToVacW(s.wave[i])],
                             !.meta.airvac = "vac"]]

(* vactoair(): converts a spectrum tagged 'vac'; does nothing otherwise *)
vactoair(s) ==
    IF s.meta.airvac # "vac" THEN [done |-> FALSE, spec |-> s]
    ELSE [done |-> TRUE,
          spec |-> [s EXCEPT !.wave = [i \in 1..Len(s.wave) |-> VacToAirW(s.wave[i])],
                             !.meta.airvac = "air"]]

-----------------------------------------------------------------------------
(* The calls of test_continuum_utils and test_airtovac_andback, in any      *)
(* order, on small spectra.                                                 *)

MaxOps == 4
RelVar == 5

Waves == {<<5000000, 5250000, 5500000, 5750000, 6000000>>, <<5100000, 5400000, 5900000>>}
FluxOf(wave) == [i \in 1..Len(wave) |-> i + 2]
ContPoints == {<<<<5000000, 1>>, <<6000000, 1>>>>,
               <<<<5200000, 2>>, <<5600000, 4>>, <<5800000, 3>>>>}
Seeds == {1, 2}

(* The continua handed to normalize: the interpolation of the control       *)
(* points, as in the test, or a constant.                                   *)
Continua(s) == {interp_continuum(s.meta.contpoints, s.wave),
                [i \in 1..Len(s.wave) |-> Rat(2)]}

SInit ==
    /\ \E wave \in Waves, cp \in ContPoints, airvac \in {"air", "vac"} :
          /\ xspec = XSpectrum1D(wave, FluxOf(wave), airvac, cp)
          /\ wave_old = [wave |-> wave, airvac |-> airvac]
    /\ flux_old = <<>> /\ co_old = <<>> /\ co_prev = <<>>
    /\ nconv = 0 /\ op = "none" /\ nops = 0
    /\ inputs = <<>> /\ coll = <<>> /\ rest = <<>> /\ stack = <<>>
    /\ spliced = <<>> /\ stitched = <<>>
    /\ abs_lines = <<>> /\ z = Z0 /\ idx_line = 0 /\ sub_xy = <<InitRows, InitCols>>
    /\ x_minmax = "vmnx" /\ panels = EmptyPanels /\ err = "none" /\ msg = {}
    /\ redraw = "none" /\ dialog = FALSE /\ pc = "idle" /\ nkeys = 0
    /\ EIdle

Step(name) == nops < MaxOps /\ nops' = nops + 1 /\ op' = name /\ UNCHANGED <<vvars, bvars, evars>>

(* spec.normalize(co) *)
DoNormalize ==
    /\ Step("normalize")
    /\ \E c \in Continua(xspec) :
          /\ xspec' = normalize(xspec, c)
          /\ co_old' = c
    /\ flux_old' = xspec.flux
    /\ UNCHANGED <<co_prev, wave_old, nconv>>

(* spec.unnormalize() *)
DoUnnormalize ==
    /\ Step(IF xspec.normed THEN "unnormalize" ELSE "unnormalize (not normed)")
    /\ xspec' = unnormalize(xspec)
    /\ UNCHANGED <<flux_old, co_old, co_prev, wave_old, nconv>>

(* spec.perturb_continuum(rel_var, seed) *)
DoPerturb ==
    /\ xspec.co # <<>>
    /\ Step("perturb")
    /\ \E seed \in Seeds : xspec' = perturb_continuum(xspec, RelVar, seed)
    /\ co_prev' = xspec.co
    /\ UNCHANGED <<flux_old, co_old, wave_old, nconv>>

(* spec.reset_continuum() *)
DoReset ==
    /\ Step("reset")
    /\ xspec' = reset_continuum(xspec)
    /\ UNCHANGED <<flux_old, co_old, co_prev, wave_old, nconv>>

(* spec.airtovac() *)
DoAirToVac ==
    /\ Step("airtovac")
    /\ xspec' = airtovac(xspec).spec
    /\ nconv' = IF airtovac(xspec).done THEN nconv + 1 ELSE nconv
    /\ UNCHANGED <<flux_old, co_old, co_prev, wave_old>>

(* spec.vactoair() *)
DoVacToAir ==
    /\ Step("vactoair")
    /\ xspec' = vactoair(xspec).spec
    /\ nconv' = IF vactoair(xspec).done THEN nconv - 1 ELSE nconv
    /\ UNCHANGED <<flux_old, co_old, co_prev, wave_old>>

SNext ==
    \/ DoNormalize
    \/ DoUnnormalize
    \/ DoPerturb
    \/ DoReset
    \/ DoAirToVac
    \/ DoVacToAir

SpecSpectrum == SInit /\ [][SNext]_vars

-----------------------------------------------------------------------------
(* Properties of one spectrum *)

(* C8: normalize sets normed and divides the flux by the continuum it is    *)
(* given; unnormalize on a normalized spectrum whose continuum is the one   *)
(* normalize was given restores the flux of before normalize, and leaves    *)
(* normed False.                                                            *)
C8_NormalizeRoundTrip ==
    /\ op = "normalize" =>
          /\ xspec.normed /\ xspec.co = co_old
          /\ \A i \in 1..Len(xspec.flux) : RMul(xspec.flux[i], co_old[i]) = flux_old[i]
    /\ op = "unnormalize" =>
          /\ ~xspec.normed
          /\ xspec.co = co_old => xspec.flux = flux_old
    /\ op = "unnormalize (not normed)" => ~xspec.normed

C8_Witness ==
    /\ op = "unnormalize" /\ nops = 4
    /\ co_prev # <<>> /\ xspec.co = co_old /\ xspec.co # co_prev
    /\ \E i \in 1..Len(xspec.co) : xspec.co[i] \notin {Rat(1), Rat(2)}
    /\ xspec.flux = flux_old /\ ~xspec.normed

(* C9: after reset_continuum, whatever the number of perturbations before   *)
(* it, the continuum is the interpolation of the stored control points,     *)
(* which is the continuum of before the perturbations when that one was     *)
(* the interpolation; a perturbation changes the continuum at every pixel.  *)
C9_ResetContinuum ==
    /\ op = "reset" =>
          /\ xspec.co = interp_continuum(xspec.meta.contpoints, xspec.wave)
          /\ \A i \in 1..Len(xspec.wave), k \in 1..Len(xspec.meta.contpoints) :
                xspec.wave[i] = xspec.meta.contpoints[k][1]
                   => xspec.co[i] = Rat(xspec.meta.contpoints[k][2])
          /\ co_old = interp_continuum(xspec.meta.contpoints, xspec.wave)
                => xspec.co = co_old
    /\ op = "perturb" =>
          \A i \in 1..Len(xspec.co) : xspec.co[i] # co_prev[i]

C9_Witness ==
    /\ op = "reset" /\ nops = 4
    /\ co_old # <<>> /\ co_prev # <<>> /\ co_prev # co_old
    /\ xspec.co = co_old
    /\ \E i, j \in 1..Len(xspec.co) : xspec.co[i] # xspec.co[j]

Within(w, w0, ppm) == Abs(w - w0) * (1000000 \div ppm) <= w0

SameWave(w, w0, ppm) == \A i \in 1..Len(w0) : Within(w[i], w0[i], ppm)

(* C10: airtovac leaves the spectrum tagged 'vac' and vactoair tagged       *)
(* 'air'; the tag differs from the initial one exactly when one conversion  *)
(* is in effect, never more than one; with none in effect the wavelengths   *)
(* are the original ones (to 1e-5, and one conversion there and back is     *)
(* exact to 1e-6), with one in effect they are the converted ones.          *)
C10_AirVacTag ==
    /\ op = "airtovac" => xspec.meta.airvac = "vac"
    /\ op = "vactoair" => xspec.meta.airvac = "air"
    /\ xspec.meta.airvac \in {"air", "vac"}
    /\ nconv \in (IF wave_old.airvac = "air" THEN {0, 1} ELSE {-1, 0})
    /\ nconv = 0 <=> xspec.meta.airvac = wave_old.airvac
    /\ nconv = 0 => SameWave(xspec.wave, wave_old.wave, 10)
    /\ nconv = 1 =>
          /\ SameWave(xspec.wave, [i \in 1..Len(wave_old.wave) |-> AirToVacW(wave_old.wave[i])], 10)
          /\ \A i \in 1..Len(xspec.wave) : xspec.wave[i] > wave_old.wave[i]
          /\ wave_old.wave[1] = 5000000 => Within(xspec.wave[1], 5001395, 10)
    /\ nconv = -1 =>
          /\ SameWave(xspec.wave, [i \in 1..Len(wave_old.wave) |-> VacToAirW(wave_old.wave[i])], 10)
          /\ \A i \in 1..Len(xspec.wave) : xspec.wave[i] < wave_old.wave[i]
    /\ \A i \in 1..Len(xspec.wave) :
          /\ Within(VacToAirW(AirToVacW(xspec.wave[i])), xspec.wave[i], 1)
          /\ Within(AirToVacW(VacToAirW(xspec.wave[i])), xspec.wave[i], 1)

C10_Witness ==
    /\ op = "vactoair" /\ nops = 4 /\ nconv = 0
    /\ wave_old.airvac = "air" /\ wave_old.wave[1] = 5000000
    /\ xspec.co = <<>> /\ ~xspec.normed

-----------------------------------------------------------------------------
(* Properties of splice_two and stitch *)

Increasing(w) == \A i \in 1..(Len(w) - 1) : w[i] < w[i + 1]

OverlapCount(a, b) ==
    Cardinality({i \in 1..Len(b.wave) : a.wave[1] <= b.wave[i] /\ b.wave[i] <= a.wave[Len(a.wave)]})

(* C11: splice_two(A, B) has len(A) + len(B) - (pixels of B inside A's      *)
(* range) pixels; A's pixels are kept as they are and are the only pixels   *)
(* inside A's range; every pixel of B outside A's range is kept; the        *)
(* wavelengths are strictly increasing, so none is duplicated.              *)
C11_SpliceTwo ==
    spliced # <<>> =>
        LET a == spliced[1].a
            b == spliced[1].b
            out == spliced[1].out
            lo == a.wave[1]
            hi == a.wave[Len(a.wave)]
        IN /\ Len(out.wave) = Len(a.wave) + Len(b.wave) - OverlapCount(a, b)
           /\ Len(out.flux) = Len(out.wave)
           /\ Increasing(out.wave)
           /\ \A i, j \in 1..Len(out.wave) : out.wave[i] = out.wave[j] => i = j
           /\ \E k \in 0..Len(b.wave) : \A i \in 1..Len(a.wave) :
                 out.wave[k + i] = a.wave[i] /\ out.flux[k + i] = a.flux[i]
           /\ \A j \in 1..Len(out.wave) :
                 (lo <= out.wave[j] /\ out.wave[j] <= hi) => out.wave[j] \in Range(a.wave)
           /\ \A i \in 1..Len(b.wave) :
                 (b.wave[i] < lo \/ b.wave[i] > hi) =>
                    \E j \in 1..Len(out.wave) :
                        out.wave[j] = b.wave[i] /\ out.flux[j] = b.flux[i]

C11_Witness ==
    /\ spliced # <<>>
    /\ OverlapCount(spliced[1].a, spliced[1].b) = 2
    /\ spliced[1].out.wave[1] < spliced[1].a.wave[1]
    /\ Len(spliced[1].out.wave) = 5

RECURSIVE SpliceAll(_)
SpliceAll(list) ==
    IF Len(list) = 1 THEN list[1]
    ELSE splice_two(SpliceAll(SubSeq(list, 1, Len(list) - 1)), list[Len(list)])

(* C12: stitch of a batch is its members spliced in batch order by repeated *)
(* splice_two; for a batch of two spectra it has the pixel count of         *)
(* splice_two of the two.                                                   *)
C12_StitchIsSplices ==
    stitched # <<>> =>
        /\ stitched[1].out = SpliceAll(stitched[1].of.spectra)
        /\ (spliced # <<>> /\ stitched[1].of.nspec = 2) =>
              /\ Len(stitched[1].out.wave) = Len(spliced[1].out.wave)
              /\ stitched[1].out = spliced[1].out

C12_Witness ==
    /\ stitched # <<>> /\ spliced # <<>>
    /\ stitched[1].of.nspec = 3
    /\ stitched[1].out.wave # spliced[1].out.wave
    /\ stitched[1].out.wave # stitch_backwards(stitched[1].of).wave

-----------------------------------------------------------------------------
(* Properties of the line keys of VelPlotWidget *)

GidOf(inax) == panels[inax[1]].gid

(* C13: 'A' over a window whose line is not in abs_lines appends exactly    *)
(* one line, with the window's rest wavelength, the widget's z, the window  *)
(* vmnx/2 and do_analysis = 1; over a window whose line is in abs_lines it  *)
(* leaves the list as it is; a second 'A' on the same window changes        *)
(* nothing more.                                                            *)
C13_AddLine ==
    pc = "ready" =>
        \A inax \in OverPanel :
            LET w == GidOf(inax)
                r == Pressed("A", inax)
                n == Len(abs_lines)
            IN /\ grab_line(abs_lines, w) = 0 =>
                     /\ Len(r.abs_lines) = n + 1
                     /\ SubSeq(r.abs_lines, 1, n) = abs_lines
                     /\ r.abs_lines[n + 1].wrest = w
                     /\ r.abs_lines[n + 1].z = z
                     /\ r.abs_lines[n + 1].analy["vlim"] = HalfVmnx
                     /\ r.abs_lines[n + 1].analy["do_analysis"] = 1
               /\ grab_line(abs_lines, w) # 0 => r.abs_lines = abs_lines
               /\ r.z = z /\ r.err = "none"
               /\ r.panels[inax[1]].gid = w
               /\ generate_line(r.abs_lines, r.z, r.panels[inax[1]].gid) = r.abs_lines

C13_Witness ==
    /\ pc = "ready" /\ z # Z0
    /\ "VelPlot: Generating line" \in msg
    /\ Len(abs_lines) = 2
    /\ abs_lines[2].z = z /\ abs_lines[1].z # z
    /\ \E inax \in OverPanel : GidOf(inax) = abs_lines[2].wrest

(* C14: 'x' over a window removes from abs_lines the line of the window's   *)
(* rest wavelength and keeps the other lines in their order; with no such   *)
(* line in the list it leaves the list as it is; 'A' and then 'x' over a    *)
(* window whose line was absent give back the list of before.               *)
C14_RemoveLine ==
    pc = "ready" =>
        \A inax \in OverPanel :
            LET w == GidOf(inax)
                il == grab_line(abs_lines, w)
                r == Pressed("x", inax)
                ra == Pressed("A", inax)
                n == Len(abs_lines)
            IN /\ il # 0 =>
                     /\ Len(r.abs_lines) = n - 1
                     /\ \A j \in 1..(n - 1) :
                           r.abs_lines[j] = abs_lines[IF j < il THEN j ELSE j + 1]
                     /\ \A j \in 1..(n - 1) : r.abs_lines[j].wrest # w
               /\ il = 0 =>
                     /\ r.abs_lines = abs_lines
                     /\ remove_line(ra.abs_lines, ra.panels[inax[1]].gid).lines = abs_lines
               /\ r.err = "none"

C14_Witness ==
    /\ pc = "ready" /\ redraw = "single" /\ Len(abs_lines) = 1
    /\ abs_lines[1].wrest = LLWrest[ShowLine[2]]
    /\ Has(abs_lines[1].analy, "datafile")
    /\ \E inax \in OverPanel :
          GidOf(inax) = LLWrest[ShowLine[1]] /\ panels[inax[1]].clr = "none"

AllKeys == Keys \cup NavKeys

(* C15: 'X' over a window asks for confirmation; answered with continue it  *)
(* leaves abs_lines empty and redraws; answered False it returns with       *)
(* abs_lines and the windows as they were and without a redraw; an empty    *)
(* abs_lines stays empty under every key but 'A'.                           *)
C15_RemoveAll ==
    pc = "ready" =>
        /\ \A inax \in OverPanel : \A xdata \in XDataOf(inax) :
              LET yes == KeyResult("X", inax, xdata, TRUE, 0)
                  no == KeyResult("X", inax, xdata, FALSE, 0)
              IN /\ yes.dialog /\ yes.abs_lines = <<>> /\ yes.redraw = "all"
                 /\ no.dialog /\ no.abs_lines = abs_lines
                 /\ no.redraw = "none" /\ no.panels = panels
        /\ abs_lines = <<>> =>
              \A key \in AllKeys \ {"A"}, inax \in Cursors, ans \in BOOLEAN, navflg \in {0, 1} :
                  \A xdata \in XDataOf(inax) :
                      KeyResult(key, inax, xdata, ans, navflg).abs_lines = <<>>

C15_Witness ==
    /\ pc = "ready" /\ dialog /\ abs_lines = <<>> /\ redraw = "all"
    /\ nkeys = 2 /\ z # Z0
    /\ \E inax \in OverPanel : panels[inax[1]].clr = "none"

VlimOf(line) == line.analy["vlim"]

(* The line but for one bound of its window: side 1 is the lower bound *)
ButBound(line, side) ==
    [line EXCEPT !.analy = Put(@, "vlim", IF side = 1 THEN <<0, @["vlim"][2]>>
                                          ELSE <<@["vlim"][1], 0>>)]

(* C16: '1' ('2') over the window of a listed line sets the lower (upper)   *)
(* bound of that line's window to the cursor velocity and changes nothing   *)
(* else of any line; '!' ('@') sets the lower (upper) bound of every line   *)
(* and changes nothing else; the opposite bound is never changed.           *)
C16_LimitKeys ==
    pc = "ready" =>
        \A v \in XData, side \in {1, 2} :
            /\ \A inax \in OverPanel :
                  LET il == LineAt(inax)
                      r == KeyResult(IF side = 1 THEN "1" ELSE "2", inax, <<v>>, FALSE, 0)
                  IN il # 0 =>
                        /\ Len(r.abs_lines) = Len(abs_lines)
                        /\ VlimOf(r.abs_lines[il])[side] = v
                        /\ VlimOf(r.abs_lines[il])[3 - side] = VlimOf(abs_lines[il])[3 - side]
                        /\ ButBound(r.abs_lines[il], side) = ButBound(abs_lines[il], side)
                        /\ \A j \in 1..Len(abs_lines) : j # il => r.abs_lines[j] = abs_lines[j]
            /\ \A inax \in Cursors :
                  LET r == KeyResult(IF side = 1 THEN "!" ELSE "@", inax, <<v>>, FALSE, 0)
                  IN /\ Len(r.abs_lines) = Len(abs_lines)
                     /\ \A j \in 1..Len(abs_lines) :
                           /\ VlimOf(r.abs_lines[j])[side] = v
                           /\ VlimOf(r.abs_lines[j])[3 - side] = VlimOf(abs_lines[j])[3 - side]
                           /\ ButBound(r.abs_lines[j], side) = ButBound(abs_lines[j], side)

C16_Witness ==
    /\ pc = "ready" /\ Len(abs_lines) = 2 /\ redraw = "all"
    /\ VlimOf(abs_lines[1]) = <<-200, 200>>
    /\ VlimOf(abs_lines[2]) = <<HalfVmnx[1], 200>>

ToggleFlag(key) == IF key = "B" THEN "flg_eye" ELSE "do_analysis"
ToggleDefault(key) == IF key = "B" THEN 0 ELSE 1

(* C17: 'B' ('N') over the window of a listed line whose flg_eye            *)
(* (do_analysis) is 0 or 1 inverts the flag; a second press gives back the  *)
(* value of before and a third one inverts it again.                        *)
C17_Toggles ==
    pc = "ready" =>
        \A key \in {"B", "N"}, inax \in OverPanel :
            LET il == LineAt(inax)
                flag == ToggleFlag(key)
                old == GetOr(abs_lines[il].analy, flag, ToggleDefault(key))
                r == Pressed(key, inax)
                once == r.abs_lines[il].analy
                twice == FlagKey(key, once)
                thrice == FlagKey(key, twice)
            IN (il # 0 /\ old \in {0, 1}) =>
                  /\ r.err = "none"
                  /\ once[flag] = 1 - old
                  /\ r.panels[inax[1]].gid = GidOf(inax)
                  /\ grab_line(r.abs_lines, GidOf(inax)) = il
                  /\ twice[flag] = old
                  /\ thrice[flag] = 1 - old
                  /\ Has(abs_lines[il].analy, flag) => twice = abs_lines[il].analy

C17_Witness ==
    /\ pc = "ready" /\ redraw = "single" /\ nkeys >= 2
    /\ \E i \in 1..Len(abs_lines) :
          /\ Has(abs_lines[i].analy, "datafile")
          /\ Has(abs_lines[i].analy, "flg_eye")
          /\ abs_lines[i].analy["flg_eye"] = 0

-----------------------------------------------------------------------------
(* Properties of the colour coding of on_draw *)

(* Analysis dictionaries with every choice of the colour flags, set or not *)
WithFlag(S, k, V) == S \cup {Put(a, k, v) : a \in S, v \in V}

ColourAnaly ==
    LET a0 == {[vlim |-> HalfVmnx, flag_kin |-> 0]}
        a1 == WithFlag(a0, "FLAGS", 0..6)
        a2 == WithFlag(a1, "flg_limit", 1..3)
        a3 == WithFlag(a2, "flg_eye", 0..1)
    IN WithFlag(a3, "do_analysis", 0..1)

(* The drawn windows whose line is in the list *)
DrawnLines == {p \in DOMAIN panels : grab_line(abs_lines, panels[p].gid) # 0}
AnalyAt(p) == abs_lines[grab_line(abs_lines, panels[p].gid)].analy

(* C18: the window of a line with do_analysis = 0 is drawn in red, whatever *)
(* its FLAGS, flg_limit and flg_eye.                                        *)
C18_ExcludedIsRed ==
    /\ \A a \in ColourAnaly :
          (Has(a, "do_analysis") /\ a["do_analysis"] = 0) => WindowColour(a) = "red"
    /\ pc = "ready" =>
          \A p \in DrawnLines :
              (Has(AnalyAt(p), "do_analysis") /\ AnalyAt(p)["do_analysis"] = 0)
                 => panels[p].clr = "red"

C18_Witness ==
    /\ pc = "ready"
    /\ \E p \in DrawnLines :
          /\ panels[p].clr = "red"
          /\ Has(AnalyAt(p), "flg_eye") /\ AnalyAt(p)["flg_eye"] = 1
          /\ Has(AnalyAt(p), "flg_limit") /\ AnalyAt(p)["flg_limit"] = 2

IsBlend(a) == Has(a, "flg_eye") /\ a["flg_eye"] = 1
IsExcluded(a) == Has(a, "do_analysis") /\ a["do_analysis"] = 0

(* C19 as stated: the window of a line with flg_eye = 1 is drawn in orange. *)
C19_BlendIsOrange ==
    pc = "ready" => \A p \in DrawnLines : IsBlend(AnalyAt(p)) => panels[p].clr = "orange"

(* C19 amended: the window of a line with flg_eye = 1 is drawn in orange,   *)
(* whatever its FLAGS and flg_limit, unless the line is excluded from the   *)
(* analysis (do_analysis = 0), in which case it is drawn in red.            *)
C19_BlendIsOrangeUnlessExcluded ==
    /\ \A a \in ColourAnaly :
          IsBlend(a) => WindowColour(a) = (IF IsExcluded(a) THEN "red" ELSE "orange")
    /\ pc = "ready" =>
          \A p \in DrawnLines :
              IsBlend(AnalyAt(p)) =>
                 panels[p].clr = (IF IsExcluded(AnalyAt(p)) THEN "red" ELSE "orange")

C19_Witness ==
    /\ pc = "ready" /\ nkeys >= 1
    /\ \E p \in DrawnLines :
          /\ panels[p].clr = "orange"
          /\ IsBlend(AnalyAt(p)) /\ ~IsExcluded(AnalyAt(p))
          /\ Has(AnalyAt(p), "flg_limit") /\ AnalyAt(p)["flg_limit"] = 3
          /\ Has(AnalyAt(p), "datafile")

-----------------------------------------------------------------------------
(* Properties of paging *)

PageSize == sub_xy[1] * sub_xy[2]

(* C20: with P = rows*cols and L = len(show_line), '=' leaves idx_line at   *)
(* min(L - P, idx_line + P) and '-' at max(0, idx_line - P); when L > P     *)
(* the index after '=' is at most L - P; 'Edge of list' is printed exactly  *)
(* when the key left idx_line as it was.                                    *)
C20_Paging ==
    pc = "ready" =>
        \A key \in {"-", "="}, inax \in Cursors :
            LET r == KeyResult(key, inax, <<>>, FALSE, 0)
                L == Len(ShowLine)
            IN /\ r.idx_line = (IF key = "=" THEN Min(L - PageSize, idx_line + PageSize)
                                ELSE Max(0, idx_line - PageSize))
               /\ (key = "=" /\ L > PageSize) => r.idx_line <= L - PageSize
               /\ "Edge of list" \in r.msg <=> r.idx_line = idx_line

-----------------------------------------------------------------------------
(* Properties of the single-line keys *)

(* C26: 'x' over a window prints 'VelPlot: Removed line' exactly when the   *)
(* line of that window was in abs_lines and has been removed.               *)
C26_RemovedMessage ==
    pc = "ready" =>
        \A inax \in OverPanel :
            LET r == Pressed("x", inax)
            IN "VelPlot: Removed line" \in r.msg <=> Len(r.abs_lines) < Len(abs_lines)

(* C27: a single-line key pressed with event.inaxes None returns at once:   *)
(* abs_lines with every flag and limit, z, sub_xy, idx_line and the windows *)
(* are as before, no dialog is opened, nothing is redrawn or raised.        *)
C27_NoAxesReturns ==
    pc = "ready" =>
        \A key \in SingleKeys, ans \in BOOLEAN, navflg \in {0, 1} :
            LET r == KeyResult(key, <<>>, <<>>, ans, navflg)
            IN /\ r.abs_lines = abs_lines
               /\ r.z = z
               /\ r.sub_xy = sub_xy
               /\ r.idx_line = idx_line
               /\ r.panels = panels
               /\ r.x_minmax = x_minmax
               /\ ~r.dialog
               /\ r.redraw = "none"
               /\ r.err = "none"
               /\ r.msg = {}

C27_Witness ==
    /\ pc = "ready" /\ nkeys = 2 /\ redraw = "none" /\ ~dialog
    /\ err = "none" /\ msg = {}
    /\ Len(abs_lines) = 1 /\ Has(abs_lines[1].analy, "datafile")
    /\ DOMAIN panels # {}

(* C28: every line of abs_lines has an ordered velocity window,             *)
(* vlim[0] <= vlim[1], whatever limit keys have been pressed.               *)
C28_WindowOrdered ==
    pc = "ready" =>
        \A i \in 1..Len(abs_lines) : VlimOf(abs_lines[i])[1] <= VlimOf(abs_lines[i])[2]

(* C29: a flag or limit key pressed over a window whose line is not in      *)
(* abs_lines returns without an exception and leaves abs_lines as it was.   *)
C29_AbsentLineHandled ==
    pc = "ready" =>
        \A key \in EditKeys, inax \in OverPanel : \A xdata \in XDataOf(inax) :
            LineAt(inax) = 0 =>
                LET r == KeyResult(key, inax, xdata, FALSE, 0)
                IN r.err = "none" /\ r.abs_lines = abs_lines

-----------------------------------------------------------------------------
(* ExamineSpecWidget.  Spectra are objects: heap[i] is the value of object  *)
(* number i, and self.spec and self.orig_spec hold object numbers, so that  *)
(* two names of one object see each other's changes.  Wavelengths are       *)
(* integers (Angstrom); flux, uncertainty and continuum pixels are exact    *)
(* fractions.  Key events come with the cursor inside the axes.             *)

MaxEvents == 3        \* events explored after construction

LyaRest == 1216       \* 1215.6701 Angstrom

(* The spectrum read by the constructor *)
EWave == <<1210, 1215, 1220, 1225>>
EFlux == <<4, 2, 3, 5>>
ESig == <<1, 1, 2, 1>>

(* Cursor positions of a key event: event.xdata, event.ydata *)
XClicks == {1212, 1222}
YClicks == {2, 4}

(* Rest wavelengths of the chosen line list, self.llist[self.llist['List']] *)
ExLines == <<1206, 1215>>

AnalysisKeys == {"N", "E", "$", "G"}
DoubletKeys == {"C", "M", "X", "4", "8", "B"}
LyaKeys == {"D", "R"}
DummyKeys == {"shift", "control", "shift+super", "super+shift"}
(* '?' opens the help page; 'q' stands for a key with no binding *)
OtherKeys == NavKeys \cup DoubletKeys \cup DummyKeys \cup {"v", "?", "q"}

RNeg(a) == <<-a[1], a[2]>>

Fractions(s) == [i \in 1..Len(s) |-> Rat(s[i])]

(* XSpectrum1D.from_tuple((wave, flux, sig)): a new spectrum value with its *)
(* own arrays, no continuum, not normalized                                 *)
from_tuple(wave, flux, sig) ==
    [wave |-> wave, flux |-> flux, sig |-> sig, co |-> <<>>, normed |-> FALSE]

(* The spectrum of the constructor's ispec *)
OrigSpectrum == from_tuple(EWave, Fractions(EFlux), Fractions(ESig))

(* box_smooth(nbox): a new spectrum whose flux is the moving average of     *)
(* nbox pixels, the window cut at the end of the array; the uncertainty is  *)
(* carried over.                                                            *)
box_smooth(s, nbox) ==
    LET n == Len(s.flux)
        last(i) == Min(n, i + nbox - 1)
        avg(i) == RDiv(RSum(SubSeq(s.flux, i, last(i))), Rat(last(i) - i + 1))
    IN from_tuple(s.wave, [i \in 1..n |-> avg(i)], s.sig)

(* 'S' smoothing the displayed object itself *)
SmoothKeyInPlace(hp, sid) ==
    [heap |-> [hp EXCEPT ![sid] = box_smooth(hp[sid], 2)], id |-> sid]

(* 'S': self.spec = self.spec.box_smooth(2), a new object *)
SmoothKey(hp, sid) ==
    [heap |-> Append(hp, box_smooth(hp[sid], 2)), id |-> Len(hp) + 1]

(* The measurement made on the displayed object itself *)
TempSpecAlias(hp, sid) == [heap |-> hp, id |-> sid]

(* tspec = XSpectrum1D.from_tuple((self.spec.wavelength, self.spec.flux,    *)
(* self.spec.sig)): a new object                                            *)
TempSpec(hp, sid) ==
    [heap |-> Append(hp, from_tuple(hp[sid].wave, hp[sid].flux, hp[sid].sig)),
     id |-> Len(hp) + 1]

(* tspec.normalize(lconti): flux and uncertainty divided by the continuum   *)
NormalizeBy(s, c) ==
    [normalize(s, c) EXCEPT !.sig = [i \in 1..Len(s.sig) |-> RDiv(s.sig[i], c[i])]]

(* sorted([a, b]) *)
Sorted2(a, b) == IF a <= b THEN <<a, b>> ELSE <<b, a>>

(* np.polyfit(iwv, ic, 1) of two points: <<slope, intercept>>.  iwv and ic  *)
(* are sorted, so the slope is never negative.  Two points at one           *)
(* wavelength w leave the system rank-deficient: the least-squares solution *)
(* of least norm (in the column-scaled variables polyfit solves for) is the *)
(* line m*(x + w)/(2*w) with m the mean of the two values.                  *)
polyfit(iwv, ic) ==
    IF iwv[1] # iwv[2]
    THEN LET a == Norm(<<ic[2] - ic[1], iwv[2] - iwv[1]>>)
         IN <<a, RAdd(Rat(ic[1]), RNeg(RMul(a, Rat(iwv[1]))))>>
    ELSE LET m == Norm(<<ic[1] + ic[2], 2>>)
         IN <<RDiv(m, Rat(2 * iwv[1])), RDiv(m, Rat(2))>>

(* np.poly1d(param)(x) *)
poly1d(param, x) == RAdd(RMul(param[1], Rat(x)), param[2])

(* lconti = cfunc(self.spec.wavelength.value) *)
LocalConti(param, wave) == [i \in 1..Len(wave) |-> poly1d(param, wave[i])]

(* The pixel nearest to a wavelength (the first of two at equal distance)   *)
NearestPix(wave, w) ==
    CHOOSE i \in 1..Len(wave) :
        \A j \in 1..Len(wave) :
            \/ Abs(wave[i] - w) < Abs(wave[j] - w)
            \/ (Abs(wave[i] - w) = Abs(wave[j] - w) /\ i <= j)

(* pix_minmax(iwv)[0]: the pixels from the one nearest to the lower bound   *)
(* to the one nearest to the upper bound                                    *)
pix_minmax(wave, iwv) == NearestPix(wave, iwv[1])..NearestPix(wave, iwv[2])

(* sign of wr - r for an integer wr and a fraction r *)
SignDiff(wr, r) ==
    LET d == wr * r[2] - r[1] IN IF d > 0 THEN 1 ELSE IF d < 0 THEN -1 ELSE 0

(* "Find the spectral line (or request it!)": the line of the list whose    *)
(* rest wavelength lies strictly inside the window taken to the rest frame  *)
(* if there is exactly one, else the line picked in SelectLineWidget from   *)
(* those inside the window, or from the whole list when none is.            *)
FindLine(iwv, ll, pick) ==
    LET zp1 == RAdd(ll.z, Rat(1))
        r0 == RDiv(Rat(iwv[1]), zp1)
        r1 == RDiv(Rat(iwv[2]), zp1)
        gdl == {k \in 1..Len(ExLines) :
                   SignDiff(ExLines[k], r0) * SignDiff(ExLines[k], r1) < 0}
        offered == IF gdl = {} THEN 1..Len(ExLines) ELSE gdl
    IN IF Cardinality(gdl) = 1 THEN ExLines[CHOOSE k \in gdl : TRUE]
       ELSE IF pick \in offered THEN ExLines[pick]
       ELSE ExLines[CHOOSE k \in offered : \A j \in offered : k <= j]

(* The measurement of the second analysis press, by the key pressed *)
KindOf(key) ==
    IF key = "$" THEN "stats" ELSE IF key = "G" THEN "gauss"
    ELSE IF key = "N" THEN "aodm" ELSE "ew"

MssgOf(key) ==
    IF key = "$" THEN "Mean=, Median=, S/N=" ELSE IF key = "G" THEN "Gaussian Fit: "
    ELSE IF key = "N" THEN "logN = " ELSE "Rest EW = "

(* the guard applied to every analysis key *)
NeedsListAll(key, ll) == ll.List = "None"

(* (event.key in ['N', 'E']) & (self.llist['List'] == 'None') *)
NeedsList(key, ll) == key \in {"N", "E"} /\ ll.List = "None"

(* on_draw that leaves adict['flg'] as it is *)
draw_adict_keep(ad) == ad

(* on_draw(replot=True), "Analysis? EW, Column": the pending point or the   *)
(* two points are plotted, and state 2 goes back to 0                       *)
draw_adict(ad) == IF ad["flg"] = 2 THEN Put(ad, "flg", 0) ELSE ad

(* What a handler of ExamineSpecWidget leaves *)
XResult(hp, sid, oid, ad, ll, ps, gm, ly, mm, rd, ms) ==
    [heap |-> hp, espec |-> sid, orig_spec |-> oid, adict |-> ad, llist |-> ll,
     psdict |-> ps, gmodel |-> gm, lya_line |-> ly, emsg |-> mm, edraw |-> rd,
     meas |-> ms]

(* The end of on_key: the redraw selected by flg *)
XFinish(flg, hp, sid, ad, ll, ps, gm, ly, mm, ms) ==
    XResult(hp, sid, orig_spec,
            IF flg = 1 THEN draw_adict(ad) ELSE ad,
            ll, ps, gm, ly,
            IF flg = -1 THEN mm \cup {"Not a valid key!"} ELSE mm,
            IF flg = 1 THEN "all" ELSE IF flg = 2 THEN "layer" ELSE "none",
            ms)

(* The second analysis press: continuum, window and measurement *)
SecondPress(key, xdata, ydata, pick) ==
    LET ad1 == Put(Put(Put(adict, "wv_2", xdata), "C_2", ydata), "flg", 2)
        iwv == Sorted2(ad1["wv_1"], ad1["wv_2"])
        ic == Sorted2(ad1["C_1"], ad1["C_2"])
        param == polyfit(iwv, ic)
        wave == heap[espec].wave
        lconti == LocalConti(param, wave)
    IN IF key \in {"$", "G"}
       THEN XFinish(1, heap, espec, ad1, llist, psdict,
                    IF key = "G" THEN <<[wave |-> wave, conti |-> lconti]>> ELSE gmodel,
                    lya_line, {MssgOf(key)},
                    <<[kind |-> KindOf(key), wvlim |-> iwv, param |-> param,
                       pix |-> pix_minmax(wave, iwv), wrest |-> 0, tspec |-> <<>>]>>)
       ELSE LET t == TempSpec(heap, espec)
                h2 == [t.heap EXCEPT ![t.id] = NormalizeBy(@, lconti)]
            IN XFinish(1, SubSeq(h2, 1, Len(heap)), espec, ad1, llist, psdict,
                       gmodel, lya_line, {MssgOf(key)},
                       <<[kind |-> KindOf(key), wvlim |-> iwv, param |-> param,
                          pix |-> {}, wrest |-> FindLine(iwv, llist, pick),
                          tspec |-> <<h2[t.id]>>]>>)

(* ExamineSpecWidget.on_key(event): event.key = key, the cursor at          *)
(* (xdata, ydata); pick is the line chosen if SelectLineWidget is shown and *)
(* navflg what ltgu.navigate returns.                                       *)
XKeyResult(key, xdata, ydata, pick, navflg) ==
    IF key \in NavKeys
    THEN XFinish(navflg, heap, espec, adict, llist, "nav", gmodel, lya_line, {}, <<>>)
    ELSE IF key \in DoubletKeys
    THEN XFinish(2, heap, espec, adict, llist, psdict, gmodel, lya_line, {}, <<>>)
    ELSE IF key = "S"
    THEN LET o == SmoothKey(heap, espec)
         IN XFinish(1, o.heap, o.id, adict, llist, psdict, gmodel, lya_line, {}, <<>>)
    ELSE IF key = "U"
    THEN XFinish(1, heap, orig_spec, adict, llist, psdict, gmodel, lya_line, {}, <<>>)
    ELSE IF key \in LyaKeys
    THEN LET zlya == Norm(<<xdata - LyaRest, LyaRest>>)
         IN XFinish(1, heap, espec, Put(adict, "flg", 4),
                    [llist EXCEPT !.z = zlya], psdict, gmodel,
                    <<[z |-> zlya, logNHI |-> IF key = "D" THEN 203 ELSE 190,
                       conti |-> ydata, wave |-> heap[espec].wave]>>,
                    {}, <<>>)
    ELSE IF key \in AnalysisKeys
    THEN IF NeedsList(key, llist)
         THEN XResult(heap, espec, orig_spec, Put(adict, "flg", 0), llist, psdict,
                      gmodel, lya_line, {"Choose a Line list first!"}, "none", <<>>)
         ELSE IF adict["flg"] = 0 \/ adict["flg"] > 2
         THEN XFinish(1, heap, espec,
                      Put(Put(Put(adict, "wv_1", xdata), "C_1", ydata), "flg", 1),
                      llist, psdict, gmodel, lya_line, {}, <<>>)
         ELSE SecondPress(key, xdata, ydata, pick)
    ELSE IF key = "v"
    THEN XFinish(1, heap, espec, adict, llist, psdict, gmodel, lya_line, {}, <<>>)
    ELSE IF key \in DummyKeys
    THEN XFinish(0, heap, espec, adict, llist, psdict, gmodel, lya_line, {}, <<>>)
    ELSE XFinish(-1, heap, espec, adict, llist, psdict, gmodel, lya_line, {}, <<>>)

XApply(r) ==
    /\ nev < MaxEvents
    /\ nev' = nev + 1
    /\ heap' = r.heap
    /\ espec' = r.espec
    /\ orig_spec' = r.orig_spec
    /\ adict' = r.adict
    /\ llist' = r.llist
    /\ psdict' = r.psdict
    /\ gmodel' = r.gmodel
    /\ lya_line' = r.lya_line
    /\ emsg' = r.emsg
    /\ edraw' = r.edraw
    /\ meas' = r.meas
    /\ UNCHANGED <<vvars, bvars, svars>>

(* llist=None gives List 'None'; a parent widget hands its own dictionary *)
LineLists == {"None", "ISM"}

(* __init__: orig_spec and spec name the one object read from ispec;        *)
(* init_spec sets adict['flg'] = 0; "Draw on init"                          *)
XInit ==
    /\ heap = <<OrigSpectrum>>
    /\ espec = 1
    /\ orig_spec = 1
    /\ adict = [flg |-> 0]
    /\ \E l \in LineLists : llist = [Plot |-> FALSE, List |-> l, z |-> Rat(0)]
    /\ psdict = "init"
    /\ gmodel = <<>>
    /\ lya_line = <<>>
    /\ emsg = {}
    /\ edraw = "all"
    /\ meas = <<>>
    /\ nev = 0
    /\ inputs = <<>> /\ coll = <<>> /\ rest = <<>> /\ stack = <<>>
    /\ spliced = <<>> /\ stitched = <<>>
    /\ abs_lines = <<>> /\ z = Z0 /\ idx_line = 0 /\ sub_xy = <<InitRows, InitCols>>
    /\ x_minmax = "vmnx" /\ panels = EmptyPanels /\ err = "none" /\ msg = {}
    /\ redraw = "none" /\ dialog = FALSE /\ pc = "idle" /\ nkeys = 0
    /\ xspec = <<>> /\ flux_old = <<>> /\ co_old = <<>>
    /\ co_prev = <<>> /\ wave_old = <<>>
    /\ nconv = 0 /\ op = "none" /\ nops = 0

XKeyAnalysis ==
    \E key \in AnalysisKeys, xdata \in XClicks, ydata \in YClicks,
       pick \in 1..Len(ExLines) :
        XApply(XKeyResult(key, xdata, ydata, pick, 0))

XKeySmooth ==
    \E key \in {"S", "U"}, xdata \in XClicks, ydata \in YClicks :
        XApply(XKeyResult(key, xdata, ydata, 1, 0))

XKeyLya ==
    \E key \in LyaKeys, xdata \in XClicks, ydata \in YClicks :
        XApply(XKeyResult(key, xdata, ydata, 1, 0))

XKeyOther ==
    \E key \in OtherKeys, xdata \in XClicks, ydata \in YClicks, navflg \in {0, 1} :
        XApply(XKeyResult(key, xdata, ydata, 1, navflg))

(* on_click: the main button draws a line and calls on_draw(replot=False) *)
XOnClick ==
    \E button \in {1, 3} :
        XApply(XResult(heap, espec, orig_spec, adict, llist, psdict, gmodel, lya_line,
                       {}, IF button = 1 THEN "layer" ELSE "none", <<>>))

(* The parent widget's line-list selector changes llist['List'] *)
SetLineList ==
    /\ nev < MaxEvents
    /\ nev' = nev + 1
    /\ \E l \in LineLists \ {llist.List} : llist' = [llist EXCEPT !.List = l]
    /\ UNCHANGED <<heap, espec, orig_spec, adict, psdict, gmodel, lya_line, emsg,
                   edraw, meas, vvars, bvars, svars>>

XNext ==
    \/ XKeyAnalysis
    \/ XKeySmooth
    \/ XKeyLya
    \/ XKeyOther
    \/ XOnClick
    \/ SetLineList

SpecExamine == XInit /\ [][XNext]_vars

-----------------------------------------------------------------------------
(* Properties of ExamineSpecWidget *)

(* The widget has been constructed *)
XReady == heap # <<>>

(* Between two events adict['flg'] is 0, 1 (first point pending) or 4 *)
XTypeOK ==
    XReady => /\ nev \in 0..MaxEvents
              /\ espec \in 1..Len(heap)
              /\ adict["flg"] \in {0, 1, 4}

ExamineKeys == AnalysisKeys \cup LyaKeys \cup OtherKeys \cup {"S", "U"}

(* What the two-press protocol requires of an analysis key and of a key    *)
(* that is neither an analysis key nor D/R                                  *)
FirstPressOK(r, xdata, ydata) ==
    /\ r.meas = <<>>
    /\ r.adict["flg"] = 1
    /\ r.adict["wv_1"] = xdata /\ r.adict["C_1"] = ydata

SecondPressOK(r, key, xdata, ydata) ==
    /\ Len(r.meas) = 1
    /\ r.meas[1].kind = (IF key = "N" THEN "aodm" ELSE IF key = "E" THEN "ew"
                         ELSE IF key = "$" THEN "stats" ELSE "gauss")
    /\ r.adict["wv_2"] = xdata /\ r.adict["C_2"] = ydata
    /\ r.adict["wv_1"] = adict["wv_1"] /\ r.adict["C_1"] = adict["C_1"]
    /\ r.adict["flg"] = 0
    /\ r.edraw = "all"

ProtocolOK(key, xdata, ydata, pick) ==
    LET r == XKeyResult(key, xdata, ydata, pick, 0)
    IN IF adict["flg"] = 0 \/ adict["flg"] > 2
       THEN FirstPressOK(r, xdata, ydata)
       ELSE SecondPressOK(r, key, xdata, ydata)

PendingKept ==
    \A key \in OtherKeys \cup {"S", "U"}, xdata \in XClicks, ydata \in YClicks,
       navflg \in {0, 1} :
        LET r == XKeyResult(key, xdata, ydata, 1, navflg)
        IN r.adict = adict /\ r.meas = <<>>

(* C21 as stated: every press of N, E, $ or G in state 0 or > 2 records the *)
(* first point and sets state 1 without a measurement; every press in state *)
(* 1 records the second point, makes one measurement of the kind of that    *)
(* key, and the redraw leaves state 0; other keys but D/R keep adict.       *)
C21_TwoPress ==
    XReady =>
        /\ \A key \in AnalysisKeys, xdata \in XClicks, ydata \in YClicks,
              pick \in 1..Len(ExLines) : ProtocolOK(key, xdata, ydata, pick)
        /\ PendingKept

(* C21 amended: the two-press protocol holds for $ and G always, and for N  *)
(* and E when a line list is chosen (llist['List'] is not 'None').          *)
C21_TwoPressGuarded ==
    XReady =>
        /\ \A key \in AnalysisKeys, xdata \in XClicks, ydata \in YClicks,
              pick \in 1..Len(ExLines) :
                (key \in {"$", "G"} \/ llist.List # "None")
                    => ProtocolOK(key, xdata, ydata, pick)
        /\ PendingKept

C21_Witness ==
    /\ XReady /\ nev = 3 /\ psdict = "nav"
    /\ Len(meas) = 1 /\ meas[1].kind = "aodm"
    /\ adict["flg"] = 0 /\ Has(adict, "wv_2") /\ adict["wv_1"] # adict["wv_2"]

(* C22: with llist['List'] = 'None', N and E make no measurement and no     *)
(* redraw, report 'Choose a Line list first!' and leave adict['flg'] = 0    *)
(* whatever it was (1 and 4 included), changing nothing else; $ and G go on *)
(* with the two-press protocol.                                             *)
C22_NoLineList ==
    (XReady /\ llist.List = "None") =>
        \A xdata \in XClicks, ydata \in YClicks, pick \in 1..Len(ExLines) :
            /\ \A key \in {"N", "E"} :
                  LET r == XKeyResult(key, xdata, ydata, pick, 0)
                  IN /\ r.meas = <<>>
                     /\ r.edraw = "none"
                     /\ "Choose a Line list first!" \in r.emsg
                     /\ r.adict = Put(adict, "flg", 0)
                     /\ r.heap = heap /\ r.espec = espec /\ r.llist = llist
                     /\ r.lya_line = lya_line /\ r.gmodel = gmodel
            /\ \A key \in {"$", "G"} :
                  LET r == XKeyResult(key, xdata, ydata, pick, 0)
                  IN /\ "Choose a Line list first!" \notin r.emsg
                     /\ r.edraw = "all"
                     /\ ProtocolOK(key, xdata, ydata, pick)

C22_Witness ==
    /\ XReady /\ llist.List = "None"
    /\ "Choose a Line list first!" \in emsg /\ edraw = "none"
    /\ adict["flg"] = 0 /\ Has(adict, "wv_1") /\ ~Has(adict, "wv_2")
    /\ lya_line # <<>>

(* C23: on the second analysis press, at another wavelength than the first, *)
(* the continuum is the straight line through (wv_1, C_1) and (wv_2, C_2)   *)
(* and the window is [min(wv_1, wv_2), max(wv_1, wv_2)].                    *)
C23_ContinuumThroughClicks ==
    (XReady /\ adict["flg"] = 1) =>
        \A key \in AnalysisKeys, xdata \in XClicks, ydata \in YClicks,
           pick \in 1..Len(ExLines) :
            (~NeedsList(key, llist) /\ xdata # adict["wv_1"]) =>
                LET m == XKeyResult(key, xdata, ydata, pick, 0).meas[1]
                IN /\ poly1d(m.param, adict["wv_1"]) = Rat(adict["C_1"])
                   /\ poly1d(m.param, xdata) = Rat(ydata)
                   /\ m.wvlim = <<Min(adict["wv_1"], xdata), Max(adict["wv_1"], xdata)>>

C25_MeasurementOnTemp ==
    (XReady /\ adict["flg"] = 1 /\ llist.List # "None") =>
        \A key \in {"N", "E"}, xdata \in XClicks, ydata \in YClicks,
           pick \in 1..Len(ExLines) :
            LET r == XKeyResult(key, xdata, ydata, pick, 0)
                m == r.meas[1]
                d == heap[espec]
            IN /\ Len(m.tspec) = 1
               /\ m.tspec[1].normed
               /\ m.tspec[1].wave = d.wave
               /\ m.tspec[1].co = LocalConti(m.param, d.wave)
               /\ \A i \in 1..Len(d.flux) :
                     /\ RMul(m.tspec[1].flux[i], m.tspec[1].co[i]) = d.flux[i]
                     /\ RMul(m.tspec[1].sig[i], m.tspec[1].co[i]) = d.sig[i]
               /\ r.espec = espec
               /\ r.heap = heap

C25_Witness ==
    /\ XReady /\ nev = 3 /\ espec # orig_spec
    /\ Len(meas) = 1 /\ meas[1].kind = "ew"
    /\ meas[1].tspec[1].normed /\ meas[1].tspec[1].flux # heap[espec].flux
    /\ ~heap[espec].normed /\ heap[espec].co = <<>>
    /\ heap[orig_spec] = OrigSpectrum

====
